---- MODULE Spec2Model ----
(***************************************************************************)
(* Model of @arivlabs/logger (packages/logger/src/index.ts): the wrapper   *)
(* around a pino logger and its SonicBoom destination.                     *)
(*                                                                         *)
(*  - Spec     the lifecycle of one logger tree: createLogger, then any    *)
(*             interleaving of flush(), shutdown(), the destination's      *)
(*             callbacks, the shutdown timers and the destination closing. *)
(*  - SpecLog  the leveled log methods (createLogMethod, normalizeLogData) *)
(*             applied to inputs drawn from bounded sets.                  *)
(*  - SpecCrash    createLogger applied to a configuration in any mode,    *)
(*             then the crash events of the process and its exit timers.   *)
(*  - SpecOptions  createLogger applied to configurations that vary the    *)
(*             level, base fields and redaction handed to pino.            *)
(*  - SpecChild    domain(), withContext() and the deprecated helpers      *)
(*             applied to names and request contexts from bounded sets.    *)
(*                                                                         *)
(* Optional values (a property that may be undefined) are sets with at     *)
(* most one element: {} is undefined, {v} is the value v.                  *)
(***************************************************************************)
EXTENDS Naturals, Sequences, FiniteSets, TLC

VARIABLES
  state,      \* LoggerState of each logger tree (index.ts 586-594)
  dest,       \* the SonicBoom destination of each logger tree
  listeners,  \* the process' registered crash listeners: <<root, event>>
  calls,      \* the shutdown() calls made so far, in order
  lastOp,     \* the last step taken and what it did, in order
  logIn,      \* the arguments of the leveled log call under study
  emitted,    \* per calling shape: the calls made to the underlying logger
  createIn,   \* the config and process.env of the createLogger call under study
  pinoOptions, \* the options that createLogger call handed to pino()
  pinoLevel,  \* the level of the pino logger of each tree's root wrapper
  process,    \* the process: crash events delivered, exit timers, exit code
  ctxIn,      \* the arguments of the derivation calls under study
  derived     \* per derivation call: the wrapper it returned

vars == <<state, dest, listeners, calls, lastOp, logIn, emitted,
          createIn, pinoOptions, pinoLevel, process, ctxIn, derived>>

lifecycleVars == <<state, dest, listeners, calls, lastOp>>

logVars == <<logIn, emitted>>

createVars == <<createIn, pinoOptions, pinoLevel>>

childVars == <<ctxIn, derived>>

----------------------------------------------------------------------------
(* Bounds of the model *)

\* shutdown() calls made in one behaviour
MaxCalls == 2

\* length of a chain of domain()/withContext()/child() derivations
MaxDepth == 2

\* number of custom redact paths in a configuration
MaxPaths == 1

\* crash events delivered to the process in one behaviour
MaxEvents == 2

----------------------------------------------------------------------------
(* Program constants *)

\* const timeoutMs = 5000
timeoutMs == 5000

\* config.asyncBufferSize ?? 4096
DefaultAsyncBufferSize == 4096

\* config.redact?.censor ?? '[REDACTED]'
DefaultCensor == "[REDACTED]"

\* process.exit(1)
ExitCode == 1

\* setTimeout(() => process.exit(1), 100)
ExitDelayMs == 100

----------------------------------------------------------------------------
(* Optional values *)

Undefined == {}

Some(v) == {v}

IsDefined(x) == x # {}

ValueOf(x) == CHOOSE v \in x : TRUE

\* a ?? b
Nullish(a, b) == IF IsDefined(a) THEN ValueOf(a) ELSE b

\* a || b on optional strings: undefined and '' are falsy
OrElse(a, b) == IF IsDefined(a) /\ ValueOf(a) # "" THEN a ELSE b

----------------------------------------------------------------------------
(* JavaScript values, as the log methods see them: t is the kind of value, *)
(* v the payload of a string, a number or an Error (its message), f the    *)
(* own properties of an object.                                            *)

NoFields == [k \in {} |-> {}]

Str(x) == [ t |-> "string", v |-> x, f |-> NoFields ]

Num(x) == [ t |-> "number", v |-> x, f |-> NoFields ]

Err(x) == [ t |-> "Error", v |-> x, f |-> NoFields ]

Null == [ t |-> "null", v |-> "", f |-> NoFields ]

Undef == [ t |-> "undefined", v |-> "", f |-> NoFields ]

Obj(fields) == [ t |-> "object", v |-> "", f |-> fields ]

\* typeof x
TypeOf(x) ==
  CASE x.t \in {"object", "null", "Error"} -> "object"
    [] OTHER -> x.t

\* !!x
Truthy(x) ==
  CASE x.t \in {"null", "undefined"} -> FALSE
    [] x.t = "string" -> x.v # ""
    [] x.t = "number" -> x.v # "0"
    [] OTHER -> TRUE

\* x.key: undefined when x has no such property
Get(x, key) == IF key \in DOMAIN x.f THEN x.f[key] ELSE Undef

----------------------------------------------------------------------------
(* The logger trees. Each createLogger call owns one LoggerState object;   *)
(* a root names that object.                                               *)

Roots == {"r1", "r2"}

Events == {"uncaughtException", "unhandledRejection"}

RECURSIVE SeqsUpTo(_, _)
SeqsUpTo(S, n) ==
  IF n = 0 THEN {<<>>}
  ELSE LET shorter == SeqsUpTo(S, n - 1)
       IN  shorter \cup {Append(s, x) : s \in {t \in shorter : Len(t) = n - 1}, x \in S}


\* DEFAULT_REDACT_PATHS
DEFAULT_REDACT_PATHS ==
  << "password", "secret", "token", "apiKey", "api_key", "accessToken",
     "access_token", "refreshToken", "refresh_token", "sessionToken",
     "session_token", "secretAccessKey", "secret_access_key", "privateKey",
     "private_key",
     "*.password", "*.secret", "*.token", "*.apiKey", "*.api_key",
     "*.accessToken", "*.secretAccessKey", "*.privateKey",
     "req.headers.authorization", "req.headers.cookie",
     "req.headers[\"x-api-key\"]",
     "credentials.accessKeyId", "credentials.secretAccessKey",
     "credentials.sessionToken" >>

\* the custom redact paths a caller adds: a new one and one of the defaults
CustomPaths == {"user.ssn", "password"}

\* config.redact: absent, or a RedactConfig with each property optional
RedactConfigs ==
  {Undefined} \cup
  { Some(rc) : rc \in
      [ paths  : {Undefined} \cup {Some(q) : q \in SeqsUpTo(CustomPaths, MaxPaths)},
        censor : {Undefined, Some("***")},
        remove : {Undefined, Some(TRUE)} ] }

\* config.base: absent, or custom base fields
BaseConfigs ==
  { Undefined,
    Some([k \in {"team"} |-> "platform"]),
    Some([k \in {"service"} |-> "other"]),
    Some([k \in {"environment"} |-> "staging"]) }

\* the configurations createLogger is called with: every mode, the options
\* handed to pino left at their defaults
Configs ==
  [ service          : {"my-service"},
    environment      : {Undefined, Some("production"), Some("development"), Some("test")},
    level            : {Undefined},
    pretty           : {Undefined, Some(TRUE), Some(FALSE)},
    redact           : {Undefined},
    enableAsync      : {Undefined, Some(TRUE), Some(FALSE)},
    asyncBufferSize  : {Undefined, Some(0)},
    base             : {Undefined},
    handleExceptions : {Undefined, Some(TRUE), Some(FALSE)},
    exitOnFatal      : {Undefined, Some(TRUE), Some(FALSE)} ]

\* process.env at the time of the createLogger call
ProcessEnvs ==
  [ ENV       : {Undefined, Some("local")},
    NODE_ENV  : {Undefined, Some("test"), Some("production")},
    LOG_LEVEL : {Undefined} ]

\* the configurations that vary the options handed to pino, in both output
\* modes, the buffering and the crash handling left at their defaults
OptionConfigs ==
  [ service          : {"my-service"},
    environment      : {Undefined, Some("production"), Some("development"), Some("test")},
    level            : {Undefined, Some("warn")},
    pretty           : {Undefined, Some(TRUE), Some(FALSE)},
    redact           : RedactConfigs,
    enableAsync      : {Undefined},
    asyncBufferSize  : {Undefined},
    base             : BaseConfigs,
    handleExceptions : {Undefined},
    exitOnFatal      : {Undefined} ]

\* process.env for those configurations
OptionEnvs ==
  [ ENV       : {Undefined, Some("local")},
    NODE_ENV  : {Undefined, Some("test"), Some("production")},
    LOG_LEVEL : {Undefined, Some("error")} ]

\* createLogger({ service: 'my-service' })
DefaultConfig ==
  [ service |-> "my-service", environment |-> Undefined, level |-> Undefined,
    pretty |-> Undefined, redact |-> Undefined, enableAsync |-> Undefined,
    asyncBufferSize |-> Undefined, base |-> Undefined,
    handleExceptions |-> Undefined, exitOnFatal |-> Undefined ]

\* process.env under jest: NODE_ENV = 'test'
TestEnv == [ ENV |-> Undefined, NODE_ENV |-> Some("test"), LOG_LEVEL |-> Undefined ]

\* a root on which createLogger has not been called
NoState ==
  [ created |-> FALSE, destination |-> FALSE, isAsync |-> FALSE,
    isPrettyMode |-> FALSE, cleanupHandlers |-> FALSE ]

NoDest ==
  [ sync |-> FALSE, minLength |-> 0, hasFlush |-> FALSE, destroyed |-> FALSE ]

\* pino.destination({ sync: !useAsync, minLength: useAsync ? (asyncBufferSize ?? 4096) : 0 })
pinoDestination(config, useAsync, hasFlush) ==
  [ sync      |-> ~useAsync,
    minLength |-> IF useAsync
                  THEN Nullish(config.asyncBufferSize, DefaultAsyncBufferSize)
                  ELSE 0,
    hasFlush  |-> hasFlush,
    destroyed |-> FALSE ]

\* o?.key on an optional object whose properties are optional
OptProp(o, key) == IF IsDefined(o) THEN ValueOf(o)[key] ELSE Undefined

\* { ...a, ...b }: b's fields win
Spread(a, b) ==
  [k \in DOMAIN a \cup DOMAIN b |-> IF k \in DOMAIN b THEN b[k] ELSE a[k]]

\* [...DEFAULT_REDACT_PATHS, ...(config.redact?.paths ?? [])]
redactPaths(config) ==
  DEFAULT_REDACT_PATHS \o Nullish(OptProp(config.redact, "paths"), <<>>)

\* basePinoOptions that takes the custom redact paths in place of the defaults
basePinoOptionsCustomPathsOnly(config, env, environment, isDevelopment) ==
  [ name   |-> config.service,
    level  |-> ValueOf(OrElse(config.level,
                 OrElse(env.LOG_LEVEL, Some(IF isDevelopment THEN "debug" ELSE "info")))),
    base   |-> Spread([ service |-> config.service, environment |-> environment ],
                      Nullish(config.base, NoFields)),
    redact |-> [ paths  |-> Nullish(OptProp(config.redact, "paths"), DEFAULT_REDACT_PATHS),
                 censor |-> Nullish(OptProp(config.redact, "censor"), DefaultCensor),
                 remove |-> Nullish(OptProp(config.redact, "remove"), FALSE) ] ]

\* basePinoOptions that reads LOG_LEVEL before config.level
basePinoOptionsEnvLevelFirst(config, env, environment, isDevelopment) ==
  [ name   |-> config.service,
    level  |-> ValueOf(OrElse(env.LOG_LEVEL,
                 OrElse(config.level, Some(IF isDevelopment THEN "debug" ELSE "info")))),
    base   |-> Spread([ service |-> config.service, environment |-> environment ],
                      Nullish(config.base, NoFields)),
    redact |-> [ paths  |-> redactPaths(config),
                 censor |-> Nullish(OptProp(config.redact, "censor"), DefaultCensor),
                 remove |-> Nullish(OptProp(config.redact, "remove"), FALSE) ] ]

\* const basePinoOptions = { name, level, base, redact, ... }; the timestamp
\* function and the serializers are the same for every configuration
basePinoOptions(config, env, environment, isDevelopment) ==
  [ name   |-> config.service,
    level  |-> ValueOf(OrElse(config.level,
                 OrElse(env.LOG_LEVEL, Some(IF isDevelopment THEN "debug" ELSE "info")))),
    base   |-> Spread([ service |-> config.service, environment |-> environment ],
                      Nullish(config.base, NoFields)),
    redact |-> [ paths  |-> redactPaths(config),
                 censor |-> Nullish(OptProp(config.redact, "censor"), DefaultCensor),
                 remove |-> Nullish(OptProp(config.redact, "remove"), FALSE) ] ]

\* no crash handler registered
NoHandler == [ kind |-> "none", shouldExit |-> FALSE ]

\* createLogger that registers the crash handlers in the test environment too
createLoggerRegistersInTest(r, config, env, hasFlush) ==
  LET environment ==
        ValueOf(OrElse(config.environment,
                  OrElse(env.ENV, OrElse(env.NODE_ENV, Some("development")))))
      isDevelopment == environment = "development"
      isLocal == env.ENV = Some("local")
      isTest == environment = "test" \/ env.NODE_ENV = Some("test")
      shouldPrettyPrint == Nullish(config.pretty, isDevelopment \/ isLocal)
      useAsync == Nullish(config.enableAsync, ~isDevelopment /\ ~isLocal /\ ~isTest)
      register == Nullish(config.handleExceptions, FALSE)
      shouldExit == config.exitOnFatal # Some(FALSE)
  IN  [ state |->
          [ created         |-> TRUE,
            destination     |-> ~shouldPrettyPrint,
            isAsync         |-> IF shouldPrettyPrint THEN FALSE ELSE useAsync,
            isPrettyMode    |-> shouldPrettyPrint,
            cleanupHandlers |-> register ],
        dest |->
          IF shouldPrettyPrint THEN NoDest
          ELSE pinoDestination(config, useAsync, hasFlush),
        options |->
          [ pino      |-> basePinoOptions(config, env, environment, isDevelopment),
            transport |-> IF shouldPrettyPrint THEN Some("pino-pretty") ELSE Undefined ],
        handler |->
          IF ~register THEN NoHandler
          ELSE [ kind       |-> IF ~shouldPrettyPrint THEN "crashSafe" ELSE "bestEffort",
                 shouldExit |-> shouldExit ],
        listeners |->
          IF register THEN {<<r, e>> : e \in Events} ELSE {} ]

\* createLogger that takes the async default in every environment but development
createLoggerAsyncOutsideDevelopment(r, config, env, hasFlush) ==
  LET environment ==
        ValueOf(OrElse(config.environment,
                  OrElse(env.ENV, OrElse(env.NODE_ENV, Some("development")))))
      isDevelopment == environment = "development"
      isLocal == env.ENV = Some("local")
      isTest == environment = "test" \/ env.NODE_ENV = Some("test")
      shouldPrettyPrint == Nullish(config.pretty, isDevelopment \/ isLocal)
      useAsync == Nullish(config.enableAsync, ~isDevelopment)
      register == Nullish(config.handleExceptions, FALSE) /\ ~isTest
      shouldExit == config.exitOnFatal # Some(FALSE)
  IN  [ state |->
          [ created         |-> TRUE,
            destination     |-> ~shouldPrettyPrint,
            isAsync         |-> IF shouldPrettyPrint THEN FALSE ELSE useAsync,
            isPrettyMode    |-> shouldPrettyPrint,
            cleanupHandlers |-> register ],
        dest |->
          IF shouldPrettyPrint THEN NoDest
          ELSE pinoDestination(config, useAsync, hasFlush),
        options |->
          [ pino      |-> basePinoOptions(config, env, environment, isDevelopment),
            transport |-> IF shouldPrettyPrint THEN Some("pino-pretty") ELSE Undefined ],
        handler |->
          IF ~register THEN NoHandler
          ELSE [ kind       |-> IF ~shouldPrettyPrint THEN "crashSafe" ELSE "bestEffort",
                 shouldExit |-> shouldExit ],
        listeners |->
          IF register THEN {<<r, e>> : e \in Events} ELSE {} ]

\* createLogger that leaves isAsync as computed in pretty mode
createLoggerPrettyKeepsAsync(r, config, env, hasFlush) ==
  LET environment ==
        ValueOf(OrElse(config.environment,
                  OrElse(env.ENV, OrElse(env.NODE_ENV, Some("development")))))
      isDevelopment == environment = "development"
      isLocal == env.ENV = Some("local")
      isTest == environment = "test" \/ env.NODE_ENV = Some("test")
      shouldPrettyPrint == Nullish(config.pretty, isDevelopment \/ isLocal)
      useAsync == Nullish(config.enableAsync, ~isDevelopment /\ ~isLocal /\ ~isTest)
      register == Nullish(config.handleExceptions, FALSE) /\ ~isTest
      shouldExit == config.exitOnFatal # Some(FALSE)
  IN  [ state |->
          [ created         |-> TRUE,
            destination     |-> ~shouldPrettyPrint,
            isAsync         |-> useAsync,
            isPrettyMode    |-> shouldPrettyPrint,
            cleanupHandlers |-> register ],
        dest |->
          IF shouldPrettyPrint THEN NoDest
          ELSE pinoDestination(config, useAsync, hasFlush),
        options |->
          [ pino      |-> basePinoOptions(config, env, environment, isDevelopment),
            transport |-> IF shouldPrettyPrint THEN Some("pino-pretty") ELSE Undefined ],
        handler |->
          IF ~register THEN NoHandler
          ELSE [ kind       |-> IF ~shouldPrettyPrint THEN "crashSafe" ELSE "bestEffort",
                 shouldExit |-> shouldExit ],
        listeners |->
          IF register THEN {<<r, e>> : e \in Events} ELSE {} ]

\* createLogger(config) under process.env = env, for the logger tree r.
\* hasFlush: whether the destination pino hands back has a flush function.
\* The result is the LoggerState, the destination, the options handed to
\* pino(), the crash handler closure and the listeners added.
createLogger(r, config, env, hasFlush) ==
  LET environment ==
        ValueOf(OrElse(config.environment,
                  OrElse(env.ENV, OrElse(env.NODE_ENV, Some("development")))))
      isDevelopment == environment = "development"
      isLocal == env.ENV = Some("local")
      isTest == environment = "test" \/ env.NODE_ENV = Some("test")
      shouldPrettyPrint == Nullish(config.pretty, isDevelopment \/ isLocal)
      useAsync == Nullish(config.enableAsync, ~isDevelopment /\ ~isLocal /\ ~isTest)
      register == Nullish(config.handleExceptions, FALSE) /\ ~isTest
      shouldExit == config.exitOnFatal # Some(FALSE)
  IN  [ state |->
          [ created         |-> TRUE,
            destination     |-> ~shouldPrettyPrint,
            isAsync         |-> IF shouldPrettyPrint THEN FALSE ELSE useAsync,
            isPrettyMode    |-> shouldPrettyPrint,
            cleanupHandlers |-> register ],
        dest |->
          IF shouldPrettyPrint THEN NoDest
          ELSE pinoDestination(config, useAsync, hasFlush),
        options |->
          [ pino      |-> basePinoOptions(config, env, environment, isDevelopment),
            transport |-> IF shouldPrettyPrint THEN Some("pino-pretty") ELSE Undefined ],
        handler |->
          IF ~register THEN NoHandler
          ELSE [ kind       |-> IF ~shouldPrettyPrint THEN "crashSafe" ELSE "bestEffort",
                 shouldExit |-> shouldExit ],
        listeners |->
          IF register THEN {<<r, e>> : e \in Events} ELSE {} ]

----------------------------------------------------------------------------
(* Wrapped loggers. A wrapper closes over a pino logger and the tree's     *)
(* LoggerState object. The pino logger is named by the bindings of the     *)
(* chain of child() calls that derived it from the root's pino logger.     *)

\* wrapLogger(pinoLogger, state)
wrapLogger(pinoLogger, stateRef) == [ pino |-> pinoLogger, state |-> stateRef ]

\* the wrapper createLogger returns for the tree r
RootLogger(r) == wrapLogger(<<>>, r)

\* pinoLogger.child(bindings)
pinoChild(pinoLogger, bindings) == Append(pinoLogger, bindings)

\* domain(name): wrapLogger(pinoLogger.child({ domain: name }), state)
domain(h, name) == wrapLogger(pinoChild(h.pino, [domain |-> name]), h.state)

\* withContext that binds only the fields the context has
withContextDropsMissing(h, context) ==
  LET all == [ domain         |-> Get(context, "domain"),
               correlation_id |-> Get(context, "correlationId"),
               user_id        |-> Get(context, "userId"),
               tenant_id      |-> Get(context, "tenantId") ]
  IN  wrapLogger(
        pinoChild(h.pino, [k \in {x \in DOMAIN all : all[x].t # "undefined"} |-> all[k]]),
        h.state)

\* withContext(context): wrapLogger(pinoLogger.child({...}), state)
withContext(h, context) ==
  wrapLogger(
    pinoChild(h.pino,
              [ domain         |-> Get(context, "domain"),
                correlation_id |-> Get(context, "correlationId"),
                user_id        |-> Get(context, "userId"),
                tenant_id      |-> Get(context, "tenantId") ]),
    h.state)

\* child() that wraps the derived pino logger with a LoggerState of its own
childDetached(h, bindings) ==
  wrapLogger(pinoChild(h.pino, bindings.f), CHOOSE r \in Roots : r # h.state)

\* child(bindings): wrapLogger(pinoLogger.child(bindings), state)
child(h, bindings) == wrapLogger(pinoChild(h.pino, bindings.f), h.state)

\* createDomainLogger(logger, domain): logger.domain(domain)
createDomainLogger(logger, name) == domain(logger, name)

\* createRequestLogger(logger, domain, correlationId, userId, tenantId):
\* logger.withContext({ domain, correlationId, userId, tenantId })
createRequestLogger(logger, name, correlationId, userId, tenantId) ==
  withContext(logger, Obj([ domain        |-> name,
                            correlationId |-> correlationId,
                            userId        |-> userId,
                            tenantId      |-> tenantId ]))

\* the derivations a caller chains: the method and its argument
Derivations ==
  { [ kind |-> "domain", arg |-> Str("auth") ],
    [ kind |-> "withContext",
      arg  |-> Obj([ correlationId |-> Str("abc-123"), tenantId |-> Str("tenant-1") ]) ],
    [ kind |-> "child", arg |-> Obj([ component |-> Str("db") ]) ] }

\* the derivation chains a caller can build
Chains == SeqsUpTo(Derivations, MaxDepth)

\* the wrapper reached from h by the chain of derivations ch
RECURSIVE Derive(_, _)
Derive(h, ch) ==
  IF ch = <<>> THEN h
  ELSE LET k == Head(ch)
           next == CASE k.kind = "domain"      -> domain(h, k.arg)
                     [] k.kind = "withContext" -> withContext(h, k.arg)
                     [] OTHER                  -> child(h, k.arg)
       IN  Derive(next, Tail(ch))

----------------------------------------------------------------------------
(* The destination, as far as this process sees it. What it does with a    *)
(* request is its own business: the caller of an action picks it.          *)

\* flushSync() throws on a closed stream, and may fail on an open one
FlushSyncThrows(d) == IF d.destroyed THEN {TRUE} ELSE BOOLEAN

\* flush(cb): throws, calls cb before returning, or keeps cb for later
FlushBehaviours(d) == IF d.destroyed THEN {"throw", "sync"} ELSE {"sync", "later"}

\* end(cb): throws, calls cb before returning, or keeps cb for later
EndBehaviours(d) == IF d.destroyed THEN {"throw"} ELSE {"sync", "later"}

----------------------------------------------------------------------------
(* flush() *)

\* what an action leaves in lastOp: the operation, the root whose wrapper it
\* was called on and how many derivations away from it, the LoggerState it
\* worked on, whether it returned or threw, what it did in order, whether
\* the destination threw at it, and the value it returned or logged
OpWith(op, r, depth, t, outcome, did, destThrew, result) ==
  [ op |-> op, root |-> r, depth |-> depth, target |-> t, outcome |-> outcome,
    did |-> did, destThrew |-> destThrew, result |-> result ]

\* an operation that returns undefined
Op(op, r, depth, t, outcome, did, destThrew) ==
  OpWith(op, r, depth, t, outcome, did, destThrew, NoFields)

NoOp == Op("createLogger", "r1", 0, "r1", "returned", <<>>, FALSE)

\* flush() without the try/catch around flushSync()
flushUnguarded(h, throws) ==
  LET s == state[h.state]
      d == dest[h.state]
  IN  IF s.isPrettyMode \/ ~s.destination \/ ~s.isAsync
      THEN [ outcome |-> "returned", did |-> <<>> ]
      ELSE IF d.minLength = 0
      THEN [ outcome |-> "returned", did |-> <<>> ]
      ELSE [ outcome |-> IF throws THEN "threw" ELSE "returned",
             did     |-> <<"flushSync">> ]

\* flush() without the minLength check
flushNoMinLength(h, throws) ==
  LET s == state[h.state]
  IN  IF s.isPrettyMode \/ ~s.destination \/ ~s.isAsync
      THEN [ outcome |-> "returned", did |-> <<>> ]
      ELSE [ outcome |-> "returned", did |-> <<"flushSync">> ]

\* flush() on the wrapper h; throws: whether flushSync() throws if called
flush(h, throws) ==
  LET s == state[h.state]
      d == dest[h.state]
  IN  IF s.isPrettyMode \/ ~s.destination \/ ~s.isAsync
      THEN [ outcome |-> "returned", did |-> <<>> ]
      ELSE IF d.minLength = 0
      THEN [ outcome |-> "returned", did |-> <<>> ]
      ELSE \* try { flushSync() } catch {}
           [ outcome |-> "returned", did |-> <<"flushSync">> ]

----------------------------------------------------------------------------
(* getBufferMetrics() *)

\* what the destination reports as writableNeedDrain: SonicBoom may not
\* define the property
NeedDrainValues == {Undefined, Some(TRUE), Some(FALSE)}

\* { isAsync, isPrettyMode, metricsAvailable }
baseMetrics(s) ==
  [ isAsync          |-> s.isAsync,
    isPrettyMode     |-> s.isPrettyMode,
    metricsAvailable |-> ~s.isPrettyMode /\ s.destination ]

\* getBufferMetrics() that reports the detail fields in every mode
getBufferMetricsAlwaysDetailed(h, writableNeedDrain) ==
  LET s == state[h.state]
      d == dest[h.state]
      base == baseMetrics(s)
  IN  [k \in DOMAIN base \cup {"isBackpressured", "isDestroyed"} |->
         CASE k = "isBackpressured" -> Nullish(writableNeedDrain, FALSE)
           [] k = "isDestroyed"     -> d.destroyed
           [] OTHER                 -> base[k]]

\* getBufferMetrics() that reports the destroyed flag and the backpressure
\* the destination was created with
getBufferMetricsCreationSnapshot(h, writableNeedDrain) ==
  LET s == state[h.state]
      base == baseMetrics(s)
  IN  IF s.destination /\ ~s.isPrettyMode
      THEN [k \in DOMAIN base \cup {"isBackpressured", "isDestroyed"} |->
              CASE k = "isBackpressured" -> FALSE
                [] k = "isDestroyed"     -> FALSE
                [] OTHER                 -> base[k]]
      ELSE base

\* getBufferMetrics() of a logger that lets go of its destination once a
\* shutdown() of the tree has resolved
getBufferMetricsReleasedByShutdown(h, writableNeedDrain) ==
  LET s == state[h.state]
      d == dest[h.state]
      base == baseMetrics(s)
      released == \E i \in 1..Len(calls) :
                    calls[i].target = h.state /\ calls[i].promise = "resolved"
  IN  IF released
      THEN [base EXCEPT !.metricsAvailable = FALSE]
      ELSE IF s.destination /\ ~s.isPrettyMode
      THEN [k \in DOMAIN base \cup {"isBackpressured", "isDestroyed"} |->
              CASE k = "isBackpressured" -> Nullish(writableNeedDrain, FALSE)
                [] k = "isDestroyed"     -> d.destroyed
                [] OTHER                 -> base[k]]
      ELSE base

\* getBufferMetrics() on the wrapper h; writableNeedDrain: what the
\* destination reports if asked
getBufferMetrics(h, writableNeedDrain) ==
  LET s == state[h.state]
      d == dest[h.state]
      base == baseMetrics(s)
  IN  IF s.destination /\ ~s.isPrettyMode
      THEN [k \in DOMAIN base \cup {"isBackpressured", "isDestroyed"} |->
              CASE k = "isBackpressured" -> Nullish(writableNeedDrain, FALSE)
                [] k = "isDestroyed"     -> d.destroyed
                [] OTHER                 -> base[k]]
      ELSE base

----------------------------------------------------------------------------
(* shutdown(): one record per call *)

NewCall(t) ==
  [ target  |-> t,          \* the LoggerState the call works on
    promise |-> "pending",  \* pending, resolved, rejected
    timer   |-> "none",     \* none, armed, cleared, fired
    delay   |-> 0,          \* the timer's delay in ms
    flushCb |-> "none",     \* none, pending, done
    endCb   |-> "none",     \* none, pending, done
    endReq  |-> FALSE,      \* end() has been requested on the destination
    thrown  |-> FALSE,      \* an exception is propagating to the caller
    steps   |-> <<>> ]      \* what the running step has done, in order

\* the record as it stands between two steps
Settled(call) == [call EXCEPT !.thrown = FALSE, !.steps = <<>>]

Step(call, what) == [call EXCEPT !.steps = Append(@, what)]

\* resolve(): settles a pending promise, nothing otherwise
resolve(call) ==
  IF call.promise = "pending"
  THEN Step([call EXCEPT !.promise = "resolved"], "resolve")
  ELSE call

\* a throw inside the promise executor rejects the promise
reject(call) ==
  IF call.promise = "pending"
  THEN Step([call EXCEPT !.promise = "rejected", !.thrown = FALSE], "reject")
  ELSE [call EXCEPT !.thrown = FALSE]

\* clearTimeout(timeout)
clearTimeout(call) ==
  [call EXCEPT !.timer = IF @ = "armed" THEN "cleared" ELSE @]

\* setTimeout(() => { resolve(); }, timeoutMs)
timeoutCallback(call) ==
  resolve(Step([call EXCEPT !.timer = "fired"], "timeout"))

\* an end callback that resolves without cancelling the timer
endCallbackNoClear(call) ==
  resolve(Step([call EXCEPT !.endCb = "done"], "endCb"))

\* () => { clearTimeout(timeout); resolve(); }
endCallback(call) ==
  resolve(clearTimeout(Step([call EXCEPT !.endCb = "done"], "endCb")))

\* dest.end(cb)
destEnd(call, endBeh) ==
  LET c == Step([call EXCEPT !.endReq = TRUE], "end")
  IN  CASE endBeh = "throw" -> [c EXCEPT !.thrown = TRUE]
        [] endBeh = "sync"  -> endCallback(c)
        [] OTHER            -> [c EXCEPT !.endCb = "pending"]

\* a flush callback that settles the wait without ending the stream
flushCallbackNoEnd(call, endBeh) ==
  resolve(clearTimeout(Step([call EXCEPT !.flushCb = "done"], "flushCb")))

\* () => { dest.end(...) }
flushCallback(call, endBeh) ==
  destEnd(Step([call EXCEPT !.flushCb = "done"], "flushCb"), endBeh)

\* dest.flush(cb) followed at once by dest.end(...), not chained in cb
destFlushEndsAtOnce(call, flushBeh, endBeh) ==
  LET c == Step(call, "flush")
  IN  CASE flushBeh = "throw" -> [c EXCEPT !.thrown = TRUE]
        [] OTHER              -> destEnd([c EXCEPT !.flushCb = "pending"], endBeh)

\* dest.flush(cb)
destFlush(call, flushBeh, endBeh) ==
  LET c == Step(call, "flush")
  IN  CASE flushBeh = "throw" -> [c EXCEPT !.thrown = TRUE]
        [] flushBeh = "sync"  -> flushCallback(c, endBeh)
        [] OTHER              -> [c EXCEPT !.flushCb = "pending"]

\* the executor of new Promise<void>((resolve) => { ... })
executor(call, d, flushBeh, endBeh) ==
  LET c == Step([call EXCEPT !.timer = "armed", !.delay = timeoutMs], "setTimeout")
  IN  IF d.hasFlush THEN destFlush(c, flushBeh, endBeh) ELSE destEnd(c, endBeh)

\* new Promise(executor): a throw of the executor rejects
newPromise(call, d, flushBeh, endBeh) ==
  LET c == executor(call, d, flushBeh, endBeh)
  IN  IF c.thrown THEN reject(c) ELSE c

\* a cleanup that removes the uncaughtException listener only
cleanupHandlersKeepsRejection(t) == listeners \ {<<t, "uncaughtException">>}

\* a cleanup that removes the listeners of every logger of the process
cleanupHandlersRemovesAll(t) == listeners \ {<<r, e>> : r \in Roots, e \in Events}

\* state.cleanupHandlers(): removeListener for both of the tree's handlers
cleanupHandlers(t) == listeners \ {<<t, e>> : e \in Events}

\* shutdown() that ends the destination in pretty mode too
shutdownIgnoresPrettyMode(h, flushBeh, endBeh) ==
  LET s  == state[h.state]
      d  == dest[h.state]
      c0 == NewCall(h.state)
      c1 == IF s.cleanupHandlers THEN Step(c0, "cleanup") ELSE c0
  IN  [ listeners |-> IF s.cleanupHandlers THEN cleanupHandlers(h.state) ELSE listeners,
        call |-> newPromise(Step(c1, "flushSync"), d, flushBeh, endBeh) ]

\* shutdown() that attempts flushSync only where flush() does
shutdownFlushesLikeFlush(h, flushBeh, endBeh) ==
  LET s  == state[h.state]
      d  == dest[h.state]
      c0 == NewCall(h.state)
      c1 == IF s.cleanupHandlers THEN Step(c0, "cleanup") ELSE c0
      c2 == IF s.isAsync /\ d.minLength # 0 THEN Step(c1, "flushSync") ELSE c1
  IN  [ listeners |-> IF s.cleanupHandlers THEN cleanupHandlers(h.state) ELSE listeners,
        call |->
          IF s.destination /\ ~s.isPrettyMode
          THEN newPromise(c2, d, flushBeh, endBeh)
          ELSE resolve(c1) ]

\* shutdown() that does nothing once the tree has been shut down
shutdownOnce(h, flushBeh, endBeh) ==
  LET s  == state[h.state]
      d  == dest[h.state]
      c0 == NewCall(h.state)
      c1 == IF s.cleanupHandlers THEN Step(c0, "cleanup") ELSE c0
  IN  IF \E i \in 1..Len(calls) : calls[i].target = h.state
      THEN [ listeners |-> listeners, call |-> resolve(c0) ]
      ELSE [ listeners |-> IF s.cleanupHandlers THEN cleanupHandlers(h.state) ELSE listeners,
             call |->
               IF s.destination /\ ~s.isPrettyMode
               THEN newPromise(Step(c1, "flushSync"), d, flushBeh, endBeh)
               ELSE resolve(c1) ]

\* shutdown() on the wrapper h, up to its await: the call's record and the
\* process' listeners when it suspends or returns
shutdown(h, flushBeh, endBeh) ==
  LET s  == state[h.state]
      d  == dest[h.state]
      c0 == NewCall(h.state)
      c1 == IF s.cleanupHandlers THEN Step(c0, "cleanup") ELSE c0
  IN  [ listeners |-> IF s.cleanupHandlers THEN cleanupHandlers(h.state) ELSE listeners,
        call |->
          IF s.destination /\ ~s.isPrettyMode
          THEN \* try { dest.flushSync() } catch {}
               newPromise(Step(c1, "flushSync"), d, flushBeh, endBeh)
          ELSE resolve(c1) ]

----------------------------------------------------------------------------
(* normalizeLogData and the leveled log methods *)

\* { ...rest } of const { error, ...rest } = data
Rest(fields) == [k \in DOMAIN fields \ {"error"} |-> fields[k]]

\* { ...fields, err: e }
WithErr(fields, e) ==
  [k \in DOMAIN fields \cup {"err"} |-> IF k = "err" THEN e ELSE fields[k]]

\* normalizeLogData that keeps the error property beside err
normalizeKeepsError(data) ==
  IF data.t \in {"null", "undefined"}
  THEN [ threw |-> TRUE, value |-> data ]
  ELSE IF Get(data, "error").t = "Error" /\ ~Truthy(Get(data, "err"))
  THEN [ threw |-> FALSE, value |-> Obj(WithErr(data.f, Get(data, "error"))) ]
  ELSE [ threw |-> FALSE, value |-> data ]

\* normalizeLogData that converts whatever err holds
normalizeIgnoresErr(data) ==
  IF data.t \in {"null", "undefined"}
  THEN [ threw |-> TRUE, value |-> data ]
  ELSE IF Get(data, "error").t = "Error"
  THEN [ threw |-> FALSE, value |-> Obj(WithErr(Rest(data.f), Get(data, "error"))) ]
  ELSE [ threw |-> FALSE, value |-> data ]

\* normalizeLogData(data): reading data.error of null or undefined throws
normalizeLogData(data) ==
  IF data.t \in {"null", "undefined"}
  THEN [ threw |-> TRUE, value |-> data ]
  ELSE IF Get(data, "error").t = "Error" /\ ~Truthy(Get(data, "err"))
  THEN [ threw |-> FALSE, value |-> Obj(WithErr(Rest(data.f), Get(data, "error"))) ]
  ELSE [ threw |-> FALSE, value |-> data ]

Levels == {"trace", "debug", "info", "warn", "error", "fatal"}

\* pinoMethod.call(pinoLogger, ...args) for the method of one level
PinoCall(level, args) == [ level |-> level, args |-> args ]

Returned(made) == [ threw |-> FALSE, calls |-> made ]

Threw == [ threw |-> TRUE, calls |-> <<>> ]

\* the log method as in v1.x: the message-first branch does not normalize
createLogMethodV1(level, msgOrObj, dataOrMsg) ==
  IF TypeOf(msgOrObj) = "string"
  THEN IF dataOrMsg.t # "undefined" /\ TypeOf(dataOrMsg) = "object"
       THEN Returned(<<PinoCall(level, <<dataOrMsg, msgOrObj>>)>>)
       ELSE Returned(<<PinoCall(level, <<msgOrObj>>)>>)
  ELSE LET normalized == normalizeLogData(msgOrObj)
       IN  IF normalized.threw THEN Threw
           ELSE IF TypeOf(dataOrMsg) = "string"
           THEN Returned(<<PinoCall(level, <<normalized.value, dataOrMsg>>)>>)
           ELSE Returned(<<PinoCall(level, <<normalized.value>>)>>)

\* createLogMethod(pinoLogger, level)(msgOrObj, dataOrMsg): whether the call
\* threw and the calls it made to the underlying logger's method
createLogMethod(level, msgOrObj, dataOrMsg) ==
  IF TypeOf(msgOrObj) = "string"
  THEN IF dataOrMsg.t # "undefined" /\ TypeOf(dataOrMsg) = "object"
       THEN LET normalized == normalizeLogData(dataOrMsg)
            IN  IF normalized.threw THEN Threw
                ELSE Returned(<<PinoCall(level, <<normalized.value, msgOrObj>>)>>)
       ELSE Returned(<<PinoCall(level, <<msgOrObj>>)>>)
  ELSE LET normalized == normalizeLogData(msgOrObj)
       IN  IF normalized.threw THEN Threw
           ELSE IF TypeOf(dataOrMsg) = "string"
           THEN Returned(<<PinoCall(level, <<normalized.value, dataOrMsg>>)>>)
           ELSE Returned(<<PinoCall(level, <<normalized.value>>)>>)

\* the fields of the record the underlying logger writes for one call with
\* an object first: the object's fields, and msg from the message argument
\* when there is one
RecordOf(call) ==
  LET fields == call.args[1].f
  IN  IF Len(call.args) >= 2
      THEN [k \in DOMAIN fields \cup {"msg"} |->
              IF k = "msg" THEN call.args[2] ELSE fields[k]]
      ELSE fields

\* { msg: m, ...d }
WithMsgKey(m, d) ==
  [k \in DOMAIN d \cup {"msg"} |-> IF k \in DOMAIN d THEN d[k] ELSE m]

----------------------------------------------------------------------------
(* The crash handlers. A handler works on the process p; its result is     *)
(* whether it returned or threw, what it did in order, the call it made to *)
(* the underlying logger and the process it leaves.                        *)

\* String(reason)
StringOf(x) ==
  CASE x.t \in {"string", "number"} -> x.v
    [] x.t = "null"                 -> "null"
    [] x.t = "undefined"            -> "undefined"
    [] OTHER                        -> "[object Object]"

\* pinoLogger.fatal({ err, event: eventName }, 'Process terminating due to error')
fatalCall(err, eventName) ==
  PinoCall("fatal", <<Obj([ err |-> err, event |-> Str(eventName) ]),
                      Str("Process terminating due to error")>>)

\* process.exit(1)
processExit(p) == [p EXCEPT !.exitCode = Some(ExitCode)]

\* a crash-safe handler without the try/catch around flushSync()
crashSafeHandlerUnguarded(p, r, err, eventName, flushSyncThrows) ==
  IF flushSyncThrows
  THEN [ outcome |-> "threw", did |-> <<"fatal", "flushSync">>,
         logged |-> fatalCall(err, eventName), process |-> p ]
  ELSE IF p.handlers[r].shouldExit
  THEN [ outcome |-> "returned", did |-> <<"fatal", "flushSync", "exit">>,
         logged |-> fatalCall(err, eventName), process |-> processExit(p) ]
  ELSE [ outcome |-> "returned", did |-> <<"fatal", "flushSync">>,
         logged |-> fatalCall(err, eventName), process |-> p ]

\* crashSafeHandler(err, eventName) of the logger tree r: fatal,
\* try { flushSync() } catch {}, then process.exit(1) if shouldExit
crashSafeHandler(p, r, err, eventName, flushSyncThrows) ==
  IF p.handlers[r].shouldExit
  THEN [ outcome |-> "returned", did |-> <<"fatal", "flushSync", "exit">>,
         logged |-> fatalCall(err, eventName), process |-> processExit(p) ]
  ELSE [ outcome |-> "returned", did |-> <<"fatal", "flushSync">>,
         logged |-> fatalCall(err, eventName), process |-> p ]

\* setTimeout(() => process.exit(1), 100) by the handler of the tree r
exitTimer(r) == [ root |-> r, delay |-> ExitDelayMs ]

\* a best-effort handler that schedules the exit whatever shouldExit says
bestEffortHandlerAlwaysExits(p, r, err, eventName) ==
  [ outcome |-> "returned", did |-> <<"fatal", "setTimeout">>,
    logged |-> fatalCall(err, eventName),
    process |-> [p EXCEPT !.exitTimers = Append(@, exitTimer(r))] ]

\* bestEffortHandler(err, eventName) of the logger tree r: fatal, then
\* setTimeout(() => process.exit(1), 100) if shouldExit
bestEffortHandler(p, r, err, eventName) ==
  IF p.handlers[r].shouldExit
  THEN [ outcome |-> "returned", did |-> <<"fatal", "setTimeout">>,
         logged |-> fatalCall(err, eventName),
         process |-> [p EXCEPT !.exitTimers = Append(@, exitTimer(r))] ]
  ELSE [ outcome |-> "returned", did |-> <<"fatal">>,
         logged |-> fatalCall(err, eventName), process |-> p ]

\* uncaughtHandler(err) of the branch createLogger registered for the tree r
uncaughtHandler(p, r, err, flushSyncThrows) ==
  IF p.handlers[r].kind = "crashSafe"
  THEN crashSafeHandler(p, r, err, "uncaughtException", flushSyncThrows)
  ELSE bestEffortHandler(p, r, err, "uncaughtException")

\* rejectionHandler(reason) of the branch createLogger registered for the
\* tree r
rejectionHandler(p, r, reason, flushSyncThrows) ==
  LET err == IF reason.t = "Error" THEN reason ELSE Err(StringOf(reason))
  IN  IF p.handlers[r].kind = "crashSafe"
      THEN crashSafeHandler(p, r, err, "unhandledRejection", flushSyncThrows)
      ELSE bestEffortHandler(p, r, err, "unhandledRejection")

\* the order in which the trees registered their listeners
ListenerOrder == <<"r1", "r2">>

\* the process emits the event e with the value given: the listeners of the
\* trees rs run in order, until one of them exits the process or throws.
\* throws[r]: whether flushSync() of the tree r throws if called. The result
\* adds the trees whose handler ran and the calls they logged.
RECURSIVE emit(_, _, _, _, _)
emit(p, rs, e, given, throws) ==
  IF rs = <<>> \/ p.exitCode # Undefined
  THEN [ outcome |-> "returned", did |-> <<>>, ran |-> <<>>, logged |-> <<>>,
         process |-> p ]
  ELSE LET r == Head(rs)
       IN  IF <<r, e>> \notin listeners
           THEN emit(p, Tail(rs), e, given, throws)
           ELSE LET res == IF e = "uncaughtException"
                           THEN uncaughtHandler(p, r, given, throws[r])
                           ELSE rejectionHandler(p, r, given, throws[r])
                    rest == IF res.outcome = "threw"
                            THEN emit(res.process, <<>>, e, given, throws)
                            ELSE emit(res.process, Tail(rs), e, given, throws)
                IN  [ outcome |-> res.outcome,
                      did     |-> res.did \o rest.did,
                      ran     |-> <<r>> \o rest.ran,
                      logged  |-> <<res.logged>> \o rest.logged,
                      process |-> rest.process ]

\* what flushSync() of each tree does if a crash-safe handler calls it
FlushSyncOutcomes(p) ==
  { f \in [Roots -> BOOLEAN] :
      \A r \in Roots :
        f[r] \in IF p.handlers[r].kind = "crashSafe"
                 THEN FlushSyncThrows(dest[r])
                 ELSE {FALSE} }

----------------------------------------------------------------------------
(* The lifecycle of one logger tree *)

NoLogIn == [ level |-> "info", msg |-> "", data |-> NoFields ]

NoEmitted == [sh \in {} |-> <<>>]

\* no pino logger created
NoLevel == [r \in Roots |-> Undefined]

\* no createLogger call under study
NoCreateIn == [ config |-> DefaultConfig, env |-> TestEnv, hasFlush |-> FALSE ]

\* a process that has seen no crash event, has no exit timer and runs
NoProcess ==
  [ events |-> 0, exitTimers |-> <<>>, exitCode |-> Undefined,
    handlers |-> [r \in Roots |-> NoHandler] ]

\* the process has not exited
Running == process.exitCode = Undefined

NoCtxIn == [ base |-> RootLogger("r1"), name |-> Str(""), context |-> NoFields ]

NoDerived == [c \in {} |-> <<>>]

Init ==
  /\ \E config \in Configs, env \in ProcessEnvs, hasFlush \in BOOLEAN :
       LET made == createLogger("r1", config, env, hasFlush)
       IN  /\ state = [r \in Roots |-> IF r = "r1" THEN made.state ELSE NoState]
           /\ dest = [r \in Roots |-> IF r = "r1" THEN made.dest ELSE NoDest]
           /\ listeners = made.listeners
           /\ pinoLevel = [NoLevel EXCEPT !["r1"] = Some(made.options.pino.level)]
  /\ calls = <<>>
  /\ lastOp = NoOp
  /\ logIn = NoLogIn
  /\ emitted = NoEmitted
  /\ createIn = NoCreateIn
  /\ pinoOptions = Undefined
  /\ process = NoProcess
  /\ ctxIn = NoCtxIn
  /\ derived = NoDerived

\* the wrappers of the tree r, each seen as the LoggerState it closes over
\* and its distance from the root wrapper
Wrappers(r) ==
  {[ state |-> h.state, depth |-> Len(h.pino) ] :
     h \in {Derive(RootLogger(r), ch) : ch \in Chains}}

\* logger.flush() on a wrapper of the tree r
FlushCall(r) ==
  /\ Running
  /\ state[r].created
  /\ \E w \in Wrappers(r) :
       \E throws \in FlushSyncThrows(dest[w.state]) :
         LET res == flush(w, throws)
         IN  lastOp' = Op("flush", r, w.depth, w.state, res.outcome, res.did,
                          res.did # <<>> /\ throws)
  /\ UNCHANGED <<state, dest, listeners, calls, logVars, createVars, process, childVars>>

\* logger.getBufferMetrics() on a wrapper of the tree r: lastOp keeps what
\* the destination had as writableNeedDrain and the metrics returned
GetBufferMetricsCall(r) ==
  /\ Running
  /\ state[r].created
  /\ \E w \in Wrappers(r), writableNeedDrain \in NeedDrainValues :
       lastOp' = OpWith("getBufferMetrics", r, w.depth, w.state, "returned", <<>>,
                        FALSE, [ writableNeedDrain |-> writableNeedDrain,
                                 metrics |-> getBufferMetrics(w, writableNeedDrain) ])
  /\ UNCHANGED <<state, dest, listeners, calls, logVars, createVars, process, childVars>>

\* logger.shutdown() on the wrapper w of the tree r
ShutdownOn(r, w) ==
  /\ Running
  /\ state[r].created
  /\ Len(calls) < MaxCalls
  /\ LET d == dest[w.state]
     IN  \E fsThrows \in FlushSyncThrows(d), flushBeh \in FlushBehaviours(d),
            endBeh \in EndBehaviours(d) :
           LET res == shutdown(w, flushBeh, endBeh)
               did == res.call.steps
           IN  /\ calls' = Append(calls, Settled(res.call))
               /\ listeners' = res.listeners
               /\ lastOp' = Op("shutdown", r, w.depth, w.state, "returned", did,
                               fsThrows /\ \E k \in 1..Len(did) : did[k] = "flushSync")
  /\ UNCHANGED <<state, dest, logVars, createVars, process, childVars>>

\* logger.shutdown() on a wrapper of the tree r
ShutdownCall(r) == \E w \in Wrappers(r) : ShutdownOn(r, w)

\* the destination calls back the flush callback of the i-th shutdown call
DestFlushDone(i) ==
  /\ Running
  /\ calls[i].flushCb = "pending"
  /\ \E endBeh \in EndBehaviours(dest[calls[i].target]) :
       LET c == flushCallback(calls[i], endBeh)
       IN  /\ calls' = [calls EXCEPT ![i] = Settled(c)]
           /\ lastOp' = Op("flushCallback", calls[i].target, 0, calls[i].target,
                           IF c.thrown THEN "threw" ELSE "returned", c.steps, c.thrown)
  /\ UNCHANGED <<state, dest, listeners, logVars, createVars, process, childVars>>

\* the destination calls back the end callback of the i-th shutdown call
DestEndDone(i) ==
  /\ Running
  /\ calls[i].endCb = "pending"
  /\ LET c == endCallback(calls[i])
     IN  /\ calls' = [calls EXCEPT ![i] = Settled(c)]
         /\ lastOp' = Op("endCallback", calls[i].target, 0, calls[i].target,
                         "returned", c.steps, FALSE)
  /\ UNCHANGED <<state, dest, listeners, logVars, createVars, process, childVars>>

\* the 5 second timer of the i-th shutdown call fires
TimeoutFires(i) ==
  /\ Running
  /\ calls[i].timer = "armed"
  /\ LET c == timeoutCallback(calls[i])
     IN  /\ calls' = [calls EXCEPT ![i] = Settled(c)]
         /\ lastOp' = Op("timeout", calls[i].target, 0, calls[i].target,
                         "returned", c.steps, FALSE)
  /\ UNCHANGED <<state, dest, listeners, logVars, createVars, process, childVars>>

EndRequested(r) ==
  \E i \in 1..Len(calls) : calls[i].target = r /\ calls[i].endReq

\* the destination closes once its end has been requested
DestClose(r) ==
  /\ Running
  /\ state[r].destination
  /\ ~dest[r].destroyed
  /\ EndRequested(r)
  /\ dest' = [dest EXCEPT ![r].destroyed = TRUE]
  /\ lastOp' = Op("close", r, 0, r, "returned", <<>>, FALSE)
  /\ UNCHANGED <<state, listeners, calls, logVars, createVars, process, childVars>>

Next ==
  \/ \E r \in Roots : FlushCall(r)
  \/ \E r \in Roots : GetBufferMetricsCall(r)
  \/ \E r \in Roots : ShutdownCall(r)
  \/ \E i \in 1..Len(calls) : DestFlushDone(i)
  \/ \E i \in 1..Len(calls) : DestEndDone(i)
  \/ \E i \in 1..Len(calls) : TimeoutFires(i)
  \/ \E r \in Roots : DestClose(r)

Spec == Init /\ [][Next]_vars

----------------------------------------------------------------------------
(* The leveled log methods on inputs drawn from bounded sets *)

\* the values a property of the data object takes; {} leaves it out
PropertyValues ==
  [ a     |-> {Undefined, Some(Num("1"))},
    error |-> {Undefined, Some(Err("e1")), Some(Str("boom")), Some(Null)},
    err   |-> {Undefined, Some(Err("e2")), Some(Str("oops")), Some(Null)},
    msg   |-> {Undefined, Some(Str("other"))} ]

\* the own properties of the object that gives each key of ks the pick p[k]
FieldsOf(p) ==
  [k \in {x \in DOMAIN p : IsDefined(p[x])} |-> ValueOf(p[k])]

DataObjects ==
  {FieldsOf(p) : p \in [a : PropertyValues.a, error : PropertyValues.error,
                        err : PropertyValues.err, msg : PropertyValues.msg]}

Messages == {"hello", "other"}

Shapes == {"messageFirst", "objectFirst", "objectWithMsg"}

InitLog ==
  /\ LET made == createLogger("r1", DefaultConfig, TestEnv, FALSE)
     IN  /\ state = [r \in Roots |-> IF r = "r1" THEN made.state ELSE NoState]
         /\ dest = [r \in Roots |-> IF r = "r1" THEN made.dest ELSE NoDest]
         /\ listeners = made.listeners
  /\ calls = <<>>
  /\ lastOp = NoOp
  /\ \E level \in Levels, m \in Messages, d \in DataObjects :
       logIn = [ level |-> level, msg |-> m, data |-> d ]
  /\ emitted = [sh \in Shapes |-> <<>>]
  /\ createIn = NoCreateIn
  /\ pinoOptions = Undefined
  /\ pinoLevel = NoLevel
  /\ process = NoProcess
  /\ ctxIn = NoCtxIn
  /\ derived = NoDerived

\* logger[level](m, d)
LogMessageFirst ==
  /\ emitted["messageFirst"] = <<>>
  /\ emitted' = [emitted EXCEPT !["messageFirst"] =
                   <<createLogMethod(logIn.level, Str(logIn.msg), Obj(logIn.data))>>]
  /\ UNCHANGED <<lifecycleVars, logIn, createVars, process, childVars>>

\* logger[level](d, m)
LogObjectFirst ==
  /\ emitted["objectFirst"] = <<>>
  /\ emitted' = [emitted EXCEPT !["objectFirst"] =
                   <<createLogMethod(logIn.level, Obj(logIn.data), Str(logIn.msg))>>]
  /\ UNCHANGED <<lifecycleVars, logIn, createVars, process, childVars>>

\* logger[level]({ msg: m, ...d })
LogObjectWithMsg ==
  /\ emitted["objectWithMsg"] = <<>>
  /\ emitted' = [emitted EXCEPT !["objectWithMsg"] =
                   <<createLogMethod(logIn.level,
                                     Obj(WithMsgKey(Str(logIn.msg), logIn.data)), Undef)>>]
  /\ UNCHANGED <<lifecycleVars, logIn, createVars, process, childVars>>

NextLog ==
  \/ LogMessageFirst
  \/ LogObjectFirst
  \/ LogObjectWithMsg

SpecLog == InitLog /\ [][NextLog]_vars

----------------------------------------------------------------------------
(* The leveled log methods called with a message and a second argument     *)
(* that is not an object with properties                                   *)

\* second arguments that are not a non-null object
SecondArguments == {Undef, Null, Num("0"), Num("42"), Str(""), Str("extra")}

InitLogArg ==
  /\ LET made == createLogger("r1", DefaultConfig, TestEnv, FALSE)
     IN  /\ state = [r \in Roots |-> IF r = "r1" THEN made.state ELSE NoState]
         /\ dest = [r \in Roots |-> IF r = "r1" THEN made.dest ELSE NoDest]
         /\ listeners = made.listeners
  /\ calls = <<>>
  /\ lastOp = NoOp
  /\ \E level \in Levels, m \in Messages, second \in SecondArguments :
       logIn = [ level |-> level, msg |-> m, data |-> NoFields, second |-> second ]
  /\ emitted = [sh \in {"messageAndValue"} |-> <<>>]
  /\ createIn = NoCreateIn
  /\ pinoOptions = Undefined
  /\ pinoLevel = NoLevel
  /\ process = NoProcess
  /\ ctxIn = NoCtxIn
  /\ derived = NoDerived

\* logger[level](m, second)
LogMessageAndValue ==
  /\ emitted["messageAndValue"] = <<>>
  /\ emitted' = [emitted EXCEPT !["messageAndValue"] =
                   <<createLogMethod(logIn.level, Str(logIn.msg), logIn.second)>>]
  /\ UNCHANGED <<lifecycleVars, logIn, createVars, process, childVars>>

NextLogArg == LogMessageAndValue

SpecLogArg == InitLogArg /\ [][NextLogArg]_vars

----------------------------------------------------------------------------
(* createLogger applied to a configuration, then the crash events of the   *)
(* process                                                                 *)

\* before the createLogger call under study
NotStarted == Op("start", "r1", 0, "r1", "returned", <<>>, FALSE)

\* createLogger(createIn.config) under process.env = createIn.env
CreateLoggerCall ==
  /\ ~state["r1"].created
  /\ Running
  /\ LET made == createLogger("r1", createIn.config, createIn.env, createIn.hasFlush)
     IN  /\ state' = [state EXCEPT !["r1"] = made.state]
         /\ dest' = [dest EXCEPT !["r1"] = made.dest]
         /\ listeners' = listeners \cup made.listeners
         /\ pinoOptions' = Some(made.options)
         /\ pinoLevel' = [pinoLevel EXCEPT !["r1"] = Some(made.options.pino.level)]
         /\ process' = [process EXCEPT !.handlers["r1"] = made.handler]
  /\ lastOp' = NoOp
  /\ UNCHANGED <<calls, logVars, createIn, childVars>>

\* what an uncaughtException event carries: a thrown Error or any thrown value
ThrownValues == {Err("boom"), Str("thrown")}

\* what an unhandledRejection event carries: the rejection reason
RejectionReasons == {Err("boom"), Str("rejected"), Num("42"), Null, Undef, Obj(NoFields)}

\* the process emits the event e carrying the value given, with at least
\* one of the loggers' listeners registered for it
CrashEvent(e, given) ==
  /\ Running
  /\ process.events < MaxEvents
  /\ \E r \in Roots : <<r, e>> \in listeners
  /\ \E throws \in FlushSyncOutcomes(process) :
       LET res == emit(process, ListenerOrder, e, given, throws)
       IN  /\ process' = [res.process EXCEPT !.events = @ + 1]
           /\ lastOp' = OpWith(e, res.ran[1], 0, res.ran[1], res.outcome, res.did,
                               \E k \in 1..Len(res.ran) :
                                 throws[res.ran[k]]
                                   /\ process.handlers[res.ran[k]].kind = "crashSafe",
                               [ given |-> given, call |-> res.logged[1],
                                 ran |-> res.ran ])
  /\ UNCHANGED <<state, dest, listeners, calls, logVars, createVars, childVars>>

\* the process emits uncaughtException
UncaughtException ==
  \E err \in ThrownValues : CrashEvent("uncaughtException", err)

\* the process emits unhandledRejection
UnhandledRejection ==
  \E reason \in RejectionReasons : CrashEvent("unhandledRejection", reason)

\* the 100 ms timer of a best-effort handler fires: process.exit(1)
ExitTimerFires ==
  /\ Running
  /\ process.exitTimers # <<>>
  /\ process' = processExit([process EXCEPT !.exitTimers = Tail(@)])
  /\ lastOp' = Op("exitTimer", Head(process.exitTimers).root, 0,
                  Head(process.exitTimers).root, "returned", <<"exit">>, FALSE)
  /\ UNCHANGED <<state, dest, listeners, calls, logVars, createVars, childVars>>

InitCrash ==
  /\ state = [r \in Roots |-> NoState]
  /\ dest = [r \in Roots |-> NoDest]
  /\ listeners = {}
  /\ calls = <<>>
  /\ lastOp = NotStarted
  /\ logIn = NoLogIn
  /\ emitted = NoEmitted
  /\ \E config \in Configs, env \in ProcessEnvs, hasFlush \in BOOLEAN :
       createIn = [ config |-> config, env |-> env, hasFlush |-> hasFlush ]
  /\ pinoOptions = Undefined
  /\ pinoLevel = NoLevel
  /\ process = NoProcess
  /\ ctxIn = NoCtxIn
  /\ derived = NoDerived

NextCrash ==
  \/ CreateLoggerCall
  \/ UncaughtException
  \/ UnhandledRejection
  \/ ExitTimerFires

SpecCrash == InitCrash /\ [][NextCrash]_vars

----------------------------------------------------------------------------
(* Two loggers of one process, each created by its own createLogger call,  *)
(* shut down while the process emits crash events                          *)

\* the configurations of the two loggers: production, in both output modes,
\* with and without crash handlers, exiting or not on a fatal error
HandlerConfigs ==
  { [DefaultConfig EXCEPT !.environment = Some("production"),
                          !.pretty = pretty,
                          !.handleExceptions = handleExceptions,
                          !.exitOnFatal = exitOnFatal] :
      pretty \in {Undefined, Some(TRUE)},
      handleExceptions \in {Undefined, Some(TRUE)},
      exitOnFatal \in {Undefined, Some(FALSE)} }

\* process.env of both createLogger calls
ProductionEnv ==
  [ ENV |-> Undefined, NODE_ENV |-> Some("production"), LOG_LEVEL |-> Undefined ]

\* const a = createLogger(configs.r1); const b = createLogger(configs.r2),
\* with destinations that have the flush method
InitHandlers ==
  /\ \E configs \in [Roots -> HandlerConfigs] :
       LET made == [r \in Roots |-> createLogger(r, configs[r], ProductionEnv, TRUE)]
       IN  /\ state = [r \in Roots |-> made[r].state]
           /\ dest = [r \in Roots |-> made[r].dest]
           /\ listeners = UNION {made[r].listeners : r \in Roots}
           /\ process = [NoProcess EXCEPT !.handlers = [r \in Roots |-> made[r].handler]]
           /\ pinoLevel = [r \in Roots |-> Some(made[r].options.pino.level)]
  /\ calls = <<>>
  /\ lastOp = NoOp
  /\ logIn = NoLogIn
  /\ emitted = NoEmitted
  /\ createIn = NoCreateIn
  /\ pinoOptions = Undefined
  /\ ctxIn = NoCtxIn
  /\ derived = NoDerived

\* the logger createLogger returned and the last of its descendants
RootAndLeaf(r) == {w \in Wrappers(r) : w.depth \in {0, MaxDepth}}

NextHandlers ==
  \/ \E r \in Roots : \E w \in RootAndLeaf(r) : ShutdownOn(r, w)
  \/ \E i \in 1..Len(calls) : DestFlushDone(i)
  \/ \E i \in 1..Len(calls) : DestEndDone(i)
  \/ \E i \in 1..Len(calls) : TimeoutFires(i)
  \/ \E r \in Roots : DestClose(r)
  \/ \E e \in Events : CrashEvent(e, Err("boom"))
  \/ ExitTimerFires

SpecHandlers == InitHandlers /\ [][NextHandlers]_vars

----------------------------------------------------------------------------
(* One logger tree under every operation of its wrappers: log calls,       *)
(* flush, shutdown, getBufferMetrics, level changes and derivations        *)

\* set level(newLevel) on the wrapper h: pinoLogger.level = newLevel. The
\* pino logger of a derived wrapper has a level of its own.
setLevel(h, newLevel) ==
  IF h.pino = <<>>
  THEN [pinoLevel EXCEPT ![h.state] = Some(newLevel)]
  ELSE pinoLevel

\* the configurations of the tree: production, in both output modes, sync
\* and async
FrameConfigs ==
  { [DefaultConfig EXCEPT !.environment = Some("production"),
                          !.pretty = pretty,
                          !.enableAsync = enableAsync] :
      pretty \in {Undefined, Some(TRUE)},
      enableAsync \in {Undefined, Some(FALSE)} }

\* const logger = createLogger(createIn.config)
InitFrame ==
  /\ \E config \in FrameConfigs, hasFlush \in BOOLEAN :
       LET made == createLogger("r1", config, ProductionEnv, hasFlush)
       IN  /\ state = [r \in Roots |-> IF r = "r1" THEN made.state ELSE NoState]
           /\ dest = [r \in Roots |-> IF r = "r1" THEN made.dest ELSE NoDest]
           /\ listeners = made.listeners
           /\ pinoLevel = [NoLevel EXCEPT !["r1"] = Some(made.options.pino.level)]
           /\ createIn = [ config |-> config, env |-> ProductionEnv, hasFlush |-> hasFlush ]
  /\ calls = <<>>
  /\ lastOp = NoOp
  /\ logIn = NoLogIn
  /\ emitted = NoEmitted
  /\ pinoOptions = Undefined
  /\ process = NoProcess
  /\ ctxIn = NoCtxIn
  /\ derived = NoDerived

\* the wrapper createLogger returned for the tree r and the wrappers derived
\* from it in one call, each with the pino logger it closes over
LoggersOf(r) ==
  {RootLogger(r)} \cup {Derive(RootLogger(r), <<k>>) : k \in Derivations}

\* the second argument of a log call with a message first
LogData == {Undef, Obj([ userId |-> Str("u1") ])}

\* logger[level]('Server started', data) on a wrapper of the tree r
LogCall(r) ==
  /\ Running
  /\ state[r].created
  /\ \E h \in LoggersOf(r), level \in {"info"}, data \in LogData :
       LET res == createLogMethod(level, Str("Server started"), data)
       IN  lastOp' = OpWith("log", r, Len(h.pino), h.state,
                            IF res.threw THEN "threw" ELSE "returned", <<>>, FALSE,
                            [ pino |-> h.pino, calls |-> res.calls ])
  /\ UNCHANGED <<state, dest, listeners, calls, logVars, createVars, process, childVars>>

\* logger.level = newLevel on a wrapper of the tree r
SetLevelCall(r) ==
  /\ Running
  /\ state[r].created
  /\ \E h \in LoggersOf(r), newLevel \in {"warn"} :
       /\ pinoLevel' = setLevel(h, newLevel)
       /\ lastOp' = OpWith("setLevel", r, Len(h.pino), h.state, "returned", <<>>, FALSE,
                           [ pino |-> h.pino, level |-> newLevel ])
  /\ UNCHANGED <<state, dest, listeners, calls, logVars, createIn, pinoOptions,
                 process, childVars>>

\* domain(), withContext() or child() on a wrapper of the tree r
DeriveCall(r) ==
  /\ Running
  /\ state[r].created
  /\ \E h \in LoggersOf(r), k \in Derivations :
       /\ Len(h.pino) < MaxDepth
       /\ lastOp' = OpWith(k.kind, r, Len(h.pino), h.state, "returned", <<>>, FALSE,
                           Derive(h, <<k>>))
  /\ UNCHANGED <<state, dest, listeners, calls, logVars, createVars, process, childVars>>

NextFrame ==
  \/ \E r \in Roots : FlushCall(r)
  \/ \E r \in Roots : GetBufferMetricsCall(r)
  \/ \E r \in Roots : \E w \in RootAndLeaf(r) : ShutdownOn(r, w)
  \/ \E i \in 1..Len(calls) : DestFlushDone(i)
  \/ \E i \in 1..Len(calls) : DestEndDone(i)
  \/ \E i \in 1..Len(calls) : TimeoutFires(i)
  \/ \E r \in Roots : DestClose(r)
  \/ \E r \in Roots : LogCall(r)
  \/ \E r \in Roots : SetLevelCall(r)
  \/ \E r \in Roots : DeriveCall(r)

SpecFrame == InitFrame /\ [][NextFrame]_vars

----------------------------------------------------------------------------
(* createLogger applied to configurations that vary the options of pino    *)

InitOptions ==
  /\ state = [r \in Roots |-> NoState]
  /\ dest = [r \in Roots |-> NoDest]
  /\ listeners = {}
  /\ calls = <<>>
  /\ lastOp = NotStarted
  /\ logIn = NoLogIn
  /\ emitted = NoEmitted
  /\ \E config \in OptionConfigs, env \in OptionEnvs :
       createIn = [ config |-> config, env |-> env, hasFlush |-> FALSE ]
  /\ pinoOptions = Undefined
  /\ pinoLevel = NoLevel
  /\ process = NoProcess
  /\ ctxIn = NoCtxIn
  /\ derived = NoDerived

NextOptions == CreateLoggerCall

SpecOptions == InitOptions /\ [][NextOptions]_vars

----------------------------------------------------------------------------
(* The derivation calls on inputs drawn from bounded sets *)

\* a property of the request context: absent, or one of its values
ContextValues ==
  [ correlationId |-> {Undefined, Some(Str("abc-123"))},
    userId        |-> {Undefined, Some(Str("user-1"))},
    tenantId      |-> {Undefined, Some(Str("tenant-1"))},
    domain        |-> {Undefined, Some(Str("discovery"))} ]

Contexts ==
  {FieldsOf(p) : p \in [ correlationId : ContextValues.correlationId,
                         userId        : ContextValues.userId,
                         tenantId      : ContextValues.tenantId,
                         domain        : ContextValues.domain ]}

DomainNames == {Str("auth"), Str("billing")}

\* the wrappers the calls are made on: the root and a wrapper derived from it
BaseLoggers == {RootLogger("r1"), child(RootLogger("r1"), Obj([ component |-> Str("db") ]))}

DeriveCalls == {"domain", "withContext", "createDomainLogger", "createRequestLogger"}

InitChild ==
  /\ LET made == createLogger("r1", DefaultConfig, TestEnv, FALSE)
     IN  /\ state = [r \in Roots |-> IF r = "r1" THEN made.state ELSE NoState]
         /\ dest = [r \in Roots |-> IF r = "r1" THEN made.dest ELSE NoDest]
         /\ listeners = made.listeners
  /\ calls = <<>>
  /\ lastOp = NoOp
  /\ logIn = NoLogIn
  /\ emitted = NoEmitted
  /\ createIn = NoCreateIn
  /\ pinoOptions = Undefined
  /\ pinoLevel = NoLevel
  /\ process = NoProcess
  /\ \E base \in BaseLoggers, name \in DomainNames, context \in Contexts :
       ctxIn = [ base |-> base, name |-> name, context |-> context ]
  /\ derived = [c \in DeriveCalls |-> <<>>]

\* logger.domain(name)
DomainCall ==
  /\ derived["domain"] = <<>>
  /\ derived' = [derived EXCEPT !["domain"] = <<domain(ctxIn.base, ctxIn.name)>>]
  /\ UNCHANGED <<lifecycleVars, logVars, createVars, process, ctxIn>>

\* logger.withContext(context)
WithContextCall ==
  /\ derived["withContext"] = <<>>
  /\ derived' = [derived EXCEPT !["withContext"] =
                   <<withContext(ctxIn.base, Obj(ctxIn.context))>>]
  /\ UNCHANGED <<lifecycleVars, logVars, createVars, process, ctxIn>>

\* createDomainLogger(logger, name)
CreateDomainLoggerCall ==
  /\ derived["createDomainLogger"] = <<>>
  /\ derived' = [derived EXCEPT !["createDomainLogger"] =
                   <<createDomainLogger(ctxIn.base, ctxIn.name)>>]
  /\ UNCHANGED <<lifecycleVars, logVars, createVars, process, ctxIn>>

\* createRequestLogger(logger, domain, correlationId, userId, tenantId), each
\* argument taken from the context, undefined where the context has none
CreateRequestLoggerCall ==
  /\ derived["createRequestLogger"] = <<>>
  /\ derived' = [derived EXCEPT !["createRequestLogger"] =
                   <<createRequestLogger(ctxIn.base,
                                         Get(Obj(ctxIn.context), "domain"),
                                         Get(Obj(ctxIn.context), "correlationId"),
                                         Get(Obj(ctxIn.context), "userId"),
                                         Get(Obj(ctxIn.context), "tenantId"))>>]
  /\ UNCHANGED <<lifecycleVars, logVars, createVars, process, ctxIn>>

NextChild ==
  \/ DomainCall
  \/ WithContextCall
  \/ CreateDomainLoggerCall
  \/ CreateRequestLoggerCall

SpecChild == InitChild /\ [][NextChild]_vars

----------------------------------------------------------------------------
(* Properties of the lifecycle (Spec) *)

\* the position of the first x in the sequence q, 0 when there is none
Pos(q, x) ==
  IF \E k \in 1..Len(q) : q[k] = x
  THEN CHOOSE k \in 1..Len(q) : q[k] = x /\ \A j \in 1..(k - 1) : q[j] # x
  ELSE 0

Has(q, x) == Pos(q, x) # 0

\* x comes before y wherever both are in q
Before(q, x, y) == (Has(q, x) /\ Has(q, y)) => Pos(q, x) < Pos(q, y)

\* the i-th shutdown call was made on a non-pretty logger
NonPretty(i) ==
  state[calls[i].target].destination /\ ~state[calls[i].target].isPrettyMode

CallIds == 1..Len(calls)

\* C1 (as claimed): a shutdown() call on a non-pretty logger that is waiting
\* still has its 5 second timer armed, and once that timer has fired the
\* call has resolved, whatever the destination did with the flush and end
\* callbacks.
C1_ShutdownResolvesByTimer ==
  \A i \in CallIds :
    NonPretty(i) =>
      /\ calls[i].promise = "pending" =>
           (calls[i].timer = "armed" /\ calls[i].delay = timeoutMs)
      /\ calls[i].timer = "fired" => calls[i].promise = "resolved"

\* C2 (as claimed): shutdown() never rejects, also when flush or end throws
\* synchronously on an already-closed destination.
C2_ShutdownNeverRejects ==
  \A i \in CallIds : calls[i].promise # "rejected"

\* C3: a flush() step returns normally, also when flushSync threw, and
\* leaves the logger state, the destination, the listeners and the shutdown
\* calls as they were.
C3_FlushNeverThrows ==
  [][lastOp'.op = "flush" =>
       /\ lastOp'.outcome = "returned"
       /\ UNCHANGED <<state, dest, listeners, calls>>]_vars

\* C3 witness: a flush() whose flushSync threw.
C3_Witness ==
  lastOp.op = "flush" /\ lastOp.destThrew /\ lastOp.outcome = "returned"

\* C4: flush() calls flushSync exactly once if and only if the logger is not
\* in pretty mode, has a destination, is in async mode and the destination's
\* minLength is not 0; otherwise it does nothing on the destination.
C4_FlushCallsFlushSyncIff ==
  lastOp.op = "flush" =>
    LET s == state[lastOp.root]
        d == dest[lastOp.root]
    IN  lastOp.did =
          IF ~s.isPrettyMode /\ s.destination /\ s.isAsync /\ d.minLength # 0
          THEN <<"flushSync">>
          ELSE <<>>

\* C4 witness: a flush() on an async logger with an unbuffered destination.
C4_Witness ==
  /\ lastOp.op = "flush"
  /\ state[lastOp.root].isAsync
  /\ dest[lastOp.root].minLength = 0
  /\ lastOp.did = <<>>

\* C5: in a shutdown() on a non-pretty logger the handlers are deregistered
\* first, then flushSync is attempted, then the async flush is requested;
\* end() is requested only after the flush callback has fired (or directly
\* when the destination has no flush function); the promise resolves only
\* after the end callback or the timeout.
C5_ShutdownOrder ==
  /\ (lastOp.op = "shutdown" /\ state[lastOp.target].destination
        /\ ~state[lastOp.target].isPrettyMode) =>
       /\ state[lastOp.target].cleanupHandlers => Pos(lastOp.did, "cleanup") = 1
       /\ Has(lastOp.did, "flushSync")
       /\ Before(lastOp.did, "cleanup", "flushSync")
       /\ Before(lastOp.did, "flushSync", "flush")
       /\ Before(lastOp.did, "flushSync", "end")
       /\ IF dest[lastOp.target].hasFlush
          THEN Has(lastOp.did, "flush")
          ELSE Has(lastOp.did, "end") /\ ~Has(lastOp.did, "flush")
  /\ (Has(lastOp.did, "end") /\ dest[lastOp.target].hasFlush) =>
       (Has(lastOp.did, "flushCb") /\ Before(lastOp.did, "flushCb", "end")
          /\ Before(lastOp.did, "flush", "flushCb"))
  /\ (Has(lastOp.did, "resolve") /\ state[lastOp.target].destination) =>
       \/ Has(lastOp.did, "endCb") /\ Before(lastOp.did, "endCb", "resolve")
       \/ Has(lastOp.did, "timeout") /\ Before(lastOp.did, "timeout", "resolve")
  /\ \A i \in CallIds :
       NonPretty(i) =>
         /\ (calls[i].endReq /\ dest[calls[i].target].hasFlush) =>
              calls[i].flushCb = "done"
         /\ calls[i].promise = "resolved" =>
              (calls[i].endCb = "done" \/ calls[i].timer = "fired")

\* C5 witness: a call that went through every stage, each on its own turn.
C5_Witness ==
  /\ lastOp.op = "endCallback"
  /\ lastOp.did = <<"endCb", "resolve">>
  /\ \E i \in CallIds :
       /\ state[calls[i].target].cleanupHandlers
       /\ calls[i].flushCb = "done"
       /\ calls[i].endCb = "done"
       /\ calls[i].timer = "cleared"
       /\ calls[i].promise = "resolved"

\* C6 (as claimed): once a shutdown() on a non-pretty logger has resolved,
\* end() has been requested on the destination.
C6_ResolvedImpliesEndRequested ==
  \A i \in CallIds :
    (NonPretty(i) /\ calls[i].promise = "resolved") => calls[i].endReq

\* C6 (amended): once a shutdown() on a non-pretty logger has resolved,
\* end() has been requested on the destination, unless the timer resolved
\* the call while the flush callback was still outstanding.
C6_ResolvedImpliesEndRequestedOrTimeout ==
  \A i \in CallIds :
    (NonPretty(i) /\ calls[i].promise = "resolved") =>
      \/ calls[i].endReq
      \/ calls[i].timer = "fired" /\ calls[i].flushCb = "pending"

\* C6 witness: a call resolved by its end callback, after end() was requested.
C6_Witness ==
  \E i \in CallIds :
    /\ NonPretty(i)
    /\ calls[i].promise = "resolved"
    /\ calls[i].timer = "cleared"
    /\ calls[i].endReq

\* C7: flush() and shutdown() on a wrapper derived from a root by any chain
\* of domain(), withContext() and child() work on the root's LoggerState:
\* shutdown() removes the root's listeners, adds a call on the root's
\* destination and does what shutdown() on the root wrapper does.
C7_ChildrenDelegateToRoot ==
  /\ \A r \in Roots, ch \in Chains : Derive(RootLogger(r), ch).state = r
  /\ lastOp.op \in {"flush", "shutdown"} => lastOp.target = lastOp.root
  /\ lastOp.op = "shutdown" =>
       /\ \A e \in Events : <<lastOp.root, e>> \notin listeners
       /\ calls[Len(calls)].target = lastOp.root
       /\ \E fb \in {"throw", "sync", "later"}, eb \in {"throw", "sync", "later"} :
            lastOp.did = shutdown(RootLogger(lastOp.root), fb, eb).call.steps

\* C7 witness: shutdown() on a wrapper two derivations away from a root with
\* registered handlers, which requested end() on the root's destination.
C7_Witness ==
  /\ lastOp.op = "shutdown"
  /\ lastOp.depth >= 2
  /\ state[lastOp.root].cleanupHandlers
  /\ Has(lastOp.did, "cleanup")
  /\ Has(lastOp.did, "end")

\* C12: getBufferMetrics() on a pretty-mode logger returns only isAsync,
\* isPrettyMode and metricsAvailable = FALSE; on a non-pretty logger it
\* returns metricsAvailable = TRUE with isBackpressured (the destination's
\* writableNeedDrain, FALSE when it is undefined) and isDestroyed (the
\* destination's destroyed flag). The detail fields are present exactly
\* when metricsAvailable is TRUE, and the call changes nothing.
C12_MetricsDetailIffAvailable ==
  lastOp.op = "getBufferMetrics" =>
    LET s == state[lastOp.root]
        m == lastOp.result.metrics
    IN  /\ lastOp.outcome = "returned"
        /\ m.isAsync = s.isAsync
        /\ m.isPrettyMode = s.isPrettyMode
        /\ IF s.isPrettyMode
           THEN /\ DOMAIN m = {"isAsync", "isPrettyMode", "metricsAvailable"}
                /\ ~m.metricsAvailable
           ELSE /\ DOMAIN m = {"isAsync", "isPrettyMode", "metricsAvailable",
                               "isBackpressured", "isDestroyed"}
                /\ m.metricsAvailable
                /\ m.isBackpressured =
                     Nullish(lastOp.result.writableNeedDrain, FALSE)
                /\ m.isDestroyed = dest[lastOp.root].destroyed
        /\ m.metricsAvailable <=> {"isBackpressured", "isDestroyed"} \subseteq DOMAIN m
        /\ m.metricsAvailable \/ {"isBackpressured", "isDestroyed"} \cap DOMAIN m = {}

\* C12 witness: metrics read from a wrapper of a non-pretty logger whose
\* destination has closed and has no writableNeedDrain: isBackpressured is
\* FALSE.
C12_Witness ==
  /\ lastOp.op = "getBufferMetrics"
  /\ ~state[lastOp.root].isPrettyMode
  /\ lastOp.result.writableNeedDrain = Undefined
  /\ lastOp.result.metrics.metricsAvailable
  /\ ~lastOp.result.metrics.isBackpressured
  /\ lastOp.result.metrics.isDestroyed
  /\ lastOp.depth >= 1

\* C17: a shutdown() on a pretty-mode logger does nothing but deregister the
\* tree's crash handlers (when it has any) and resolve: no flushSync, flush
\* or end on a destination, no timer, and the promise is resolved when the
\* call returns.
C17_PrettyShutdownOnlyDeregisters ==
  /\ (lastOp.op = "shutdown" /\ state[lastOp.target].isPrettyMode) =>
       /\ lastOp.did = IF state[lastOp.target].cleanupHandlers
                       THEN <<"cleanup", "resolve">>
                       ELSE <<"resolve">>
       /\ \A e \in Events : <<lastOp.target, e>> \notin listeners
       /\ calls[Len(calls)].promise = "resolved"
  /\ \A i \in CallIds :
       state[calls[i].target].isPrettyMode =>
         /\ calls[i].promise = "resolved"
         /\ calls[i].timer = "none"
         /\ calls[i].flushCb = "none"
         /\ calls[i].endCb = "none"
         /\ ~calls[i].endReq
         /\ dest[calls[i].target] = NoDest

\* C17 witness: a shutdown() on a pretty-mode logger that had crash handlers.
C17_Witness ==
  /\ lastOp.op = "shutdown"
  /\ state[lastOp.target].isPrettyMode
  /\ state[lastOp.target].cleanupHandlers
  /\ lastOp.did = <<"cleanup", "resolve">>
  /\ calls[Len(calls)].promise = "resolved"

\* C21: the wait of a shutdown() is a first-wins race. A settled promise
\* never changes again; when the end callback runs with the timer armed it
\* cancels the timer and resolves a pending promise in the same step; when
\* the timer fires with the promise pending it resolves it, and an end
\* callback that runs afterwards changes neither the timer nor the promise;
\* once the end callback has run the call's timer is not pending.
C21_FirstWinsRace ==
  [][\A i \in 1..Len(calls) :
       /\ calls[i].promise # "pending" => calls'[i].promise = calls[i].promise
       /\ (calls[i].endCb = "pending" /\ calls'[i].endCb = "done") =>
            IF calls[i].timer = "armed"
            THEN /\ calls'[i].timer = "cleared"
                 /\ calls[i].promise = "pending" => calls'[i].promise = "resolved"
            ELSE /\ calls'[i].timer = calls[i].timer
                 /\ calls'[i].promise = calls[i].promise
       /\ (calls[i].timer = "armed" /\ calls'[i].timer = "fired") =>
            (calls[i].promise = "pending" => calls'[i].promise = "resolved")
       /\ calls'[i].endCb = "done" => calls'[i].timer \in {"cleared", "fired"}
       /\ calls[i].timer \in {"cleared", "fired"} => calls'[i].timer = calls[i].timer]_vars

\* C21 witness: the end callback arrived after the timer had fired and
\* resolved the call, and did nothing more.
C21_Witness ==
  /\ lastOp.op = "endCallback"
  /\ lastOp.did = <<"endCb">>
  /\ \E i \in CallIds :
       /\ calls[i].timer = "fired"
       /\ calls[i].endCb = "done"
       /\ calls[i].promise = "resolved"

\* how many times x occurs in the sequence q
Count(q, x) == Cardinality({k \in 1..Len(q) : q[k] = x})

\* C23: a shutdown() on a non-pretty logger attempts flushSync exactly once,
\* in sync mode and on an unbuffered destination too, and then requests the
\* async flush (or end, when the destination has no flush function), also
\* when flushSync threw.
C23_ShutdownAlwaysFlushSyncOnce ==
  (lastOp.op = "shutdown" /\ state[lastOp.target].destination
     /\ ~state[lastOp.target].isPrettyMode) =>
    /\ Count(lastOp.did, "flushSync") = 1
    /\ IF dest[lastOp.target].hasFlush
       THEN Count(lastOp.did, "flush") = 1 /\ Before(lastOp.did, "flushSync", "flush")
       ELSE Count(lastOp.did, "end") = 1 /\ Before(lastOp.did, "flushSync", "end")

\* C23 witness: a shutdown() on a sync-mode logger whose flushSync threw and
\* which went on to request end().
C23_Witness ==
  /\ lastOp.op = "shutdown"
  /\ state[lastOp.target].destination
  /\ ~state[lastOp.target].isAsync
  /\ dest[lastOp.target].minLength = 0
  /\ lastOp.destThrew
  /\ Has(lastOp.did, "flushSync")
  /\ Has(lastOp.did, "end")
  /\ flush(RootLogger(lastOp.target), TRUE).did = <<>>

\* C24: a getBufferMetrics() step calls nothing on the destination and
\* leaves the logger state, the destination, the listeners and the shutdown
\* calls as they were; its isDestroyed is the destination's destroyed flag
\* at the time of the call and its isBackpressured the writableNeedDrain
\* the destination has then, FALSE when it has none.
C24_MetricsReadOnly ==
  [][lastOp'.op = "getBufferMetrics" =>
       /\ UNCHANGED <<state, dest, listeners, calls>>
       /\ lastOp'.did = <<>>
       /\ lastOp'.result.metrics.metricsAvailable =>
            /\ lastOp'.result.metrics.isDestroyed = dest[lastOp'.target].destroyed
            /\ lastOp'.result.metrics.isBackpressured =
                 Nullish(lastOp'.result.writableNeedDrain, FALSE)]_vars

\* C24 witness: metrics read after the destination, created open, has been
\* closed report isDestroyed = TRUE, and the backpressure it has then.
C24_Witness ==
  /\ lastOp.op = "getBufferMetrics"
  /\ lastOp.result.writableNeedDrain = Some(TRUE)
  /\ lastOp.result.metrics.metricsAvailable
  /\ lastOp.result.metrics.isBackpressured
  /\ lastOp.result.metrics.isDestroyed
  /\ \E i \in CallIds : calls[i].target = lastOp.target /\ calls[i].endReq

\* C27: every shutdown() on a non-pretty logger tree, whatever calls were
\* made before it, deregisters again, attempts flushSync, starts a 5 second
\* timer of its own and requests flush (or end) on the tree's destination:
\* no call is skipped because of an earlier one.
C27_NoShutDownFlag ==
  /\ (lastOp.op = "shutdown" /\ state[lastOp.target].destination
        /\ ~state[lastOp.target].isPrettyMode) =>
       /\ state[lastOp.target].cleanupHandlers => Pos(lastOp.did, "cleanup") = 1
       /\ Count(lastOp.did, "flushSync") = 1
       /\ Count(lastOp.did, "setTimeout") = 1
       /\ IF dest[lastOp.target].hasFlush
          THEN Has(lastOp.did, "flush")
          ELSE Has(lastOp.did, "end")
       /\ \A e \in Events : <<lastOp.target, e>> \notin listeners
  /\ \A i \in CallIds :
       NonPretty(i) => (calls[i].timer # "none" /\ calls[i].delay = timeoutMs)

\* C27 witness: a second shutdown() made while the first is waiting for its
\* end callback; the destination has two end requests and each call its own
\* timer.
C27_Witness ==
  /\ lastOp.op = "shutdown"
  /\ Len(calls) = 2
  /\ calls[1].target = calls[2].target
  /\ NonPretty(1)
  /\ state[calls[1].target].cleanupHandlers
  /\ calls[1].promise = "pending"
  /\ calls[1].endReq
  /\ calls[2].endReq
  /\ calls[1].timer = "armed"
  /\ calls[2].timer = "cleared"

----------------------------------------------------------------------------
(* Properties of the log methods (SpecLog) *)

\* the shape sh has been called, returned, and made exactly one call to the
\* underlying method of the level asked for
OneCall(sh) ==
  /\ emitted[sh] # <<>>
  /\ ~emitted[sh][1].threw
  /\ Len(emitted[sh][1].calls) = 1
  /\ emitted[sh][1].calls[1].level = logIn.level

\* the call the shape sh made
CallOf(sh) == emitted[sh][1].calls[1]

\* the object the shape sh forwarded
Forwarded(sh) == CallOf(sh).args[1]

\* message-first and object-first make the same single call: an object that
\* has d's fields other than error and err, then the message
SameCallBothOrders ==
  (emitted["messageFirst"] # <<>> /\ emitted["objectFirst"] # <<>>) =>
    /\ OneCall("messageFirst")
    /\ OneCall("objectFirst")
    /\ CallOf("messageFirst") = CallOf("objectFirst")
    /\ Len(CallOf("messageFirst").args) = 2
    /\ CallOf("messageFirst").args[2] = Str(logIn.msg)
    /\ Forwarded("messageFirst").t = "object"
    /\ \A k \in DOMAIN logIn.data \ {"error", "err"} :
         /\ k \in DOMAIN Forwarded("messageFirst").f
         /\ Forwarded("messageFirst").f[k] = logIn.data[k]

\* the object-with-message-key call writes the record the message-first
\* call writes
SameRecordWithMsgKey ==
  (emitted["messageFirst"] # <<>> /\ emitted["objectWithMsg"] # <<>>) =>
    /\ OneCall("messageFirst")
    /\ OneCall("objectWithMsg")
    /\ RecordOf(CallOf("objectWithMsg")) = RecordOf(CallOf("messageFirst"))

\* C8 (as claimed): for every level, message m and data object d, level(m, d)
\* and level(d, m) make the identical single call (normalized d, then m), and
\* level({msg: m, ...d}) yields a record with the same merged fields.
C8_SameRecordAllShapes ==
  SameCallBothOrders /\ SameRecordWithMsgKey

\* C8 (amended): level(m, d) and level(d, m) make the identical single call
\* for every d, and level({msg: m, ...d}) yields a record with the same
\* merged fields when d has no msg key of its own.
C8_SameRecordAllShapesNoOwnMsg ==
  /\ SameCallBothOrders
  /\ "msg" \notin DOMAIN logIn.data => SameRecordWithMsgKey

\* C8 witness: the three shapes called with a data object that has a plain
\* field and an Error under error, and no msg key.
C8_Witness ==
  /\ \A sh \in Shapes : OneCall(sh)
  /\ "a" \in DOMAIN logIn.data
  /\ "msg" \notin DOMAIN logIn.data
  /\ Get(Obj(logIn.data), "error").t = "Error"
  /\ "err" \notin DOMAIN logIn.data

\* C9: when the data object has an Error under error and no err property,
\* the forwarded object has err equal to that Error, no error key, and every
\* other field unchanged, in the message-first and object-first shapes.
C9_ErrorBecomesErr ==
  ("error" \in DOMAIN logIn.data /\ logIn.data["error"].t = "Error"
     /\ "err" \notin DOMAIN logIn.data) =>
    \A sh \in {"messageFirst", "objectFirst"} :
      emitted[sh] # <<>> =>
        /\ OneCall(sh)
        /\ Forwarded(sh).t = "object"
        /\ DOMAIN Forwarded(sh).f = (DOMAIN logIn.data \ {"error"}) \cup {"err"}
        /\ Forwarded(sh).f["err"] = logIn.data["error"]
        /\ \A k \in DOMAIN logIn.data \ {"error"} :
             Forwarded(sh).f[k] = logIn.data[k]

\* C9 witness: both shapes called with { a, error: Error } and no err.
C9_Witness ==
  /\ "error" \in DOMAIN logIn.data
  /\ logIn.data["error"].t = "Error"
  /\ "err" \notin DOMAIN logIn.data
  /\ "a" \in DOMAIN logIn.data
  /\ OneCall("messageFirst")
  /\ OneCall("objectFirst")
  /\ Forwarded("messageFirst").f["err"] = logIn.data["error"]

\* the object forwarded by the message-first and object-first shapes is the
\* data object as given
ForwardedUnchanged ==
  \A sh \in {"messageFirst", "objectFirst"} :
    emitted[sh] # <<>> => (OneCall(sh) /\ Forwarded(sh) = Obj(logIn.data))

\* C10 (as claimed): when the data object already carries an err property,
\* or its error property is not an Error, it is forwarded unchanged.
C10_ErrPropertyTakesPrecedence ==
  ("err" \in DOMAIN logIn.data \/ Get(Obj(logIn.data), "error").t # "Error") =>
    ForwardedUnchanged

\* C10 (amended): when the data object carries a truthy err value, or its
\* error property is not an Error, it is forwarded unchanged.
C10_TruthyErrTakesPrecedence ==
  (Truthy(Get(Obj(logIn.data), "err")) \/ Get(Obj(logIn.data), "error").t # "Error") =>
    ForwardedUnchanged

\* C10 witness: both err and an Error under error are given, and the
\* object went through as it was.
C10_Witness ==
  /\ Truthy(Get(Obj(logIn.data), "err"))
  /\ Get(Obj(logIn.data), "error").t = "Error"
  /\ OneCall("messageFirst")
  /\ Forwarded("messageFirst") = Obj(logIn.data)

----------------------------------------------------------------------------
(* Properties of createLogger and the crash handlers (SpecCrash) *)

\* the environment a configuration resolves to: config.environment, else
\* ENV, else NODE_ENV, else 'development'
ResolvedEnvironment ==
  IF IsDefined(createIn.config.environment) THEN ValueOf(createIn.config.environment)
  ELSE IF IsDefined(createIn.env.ENV) THEN ValueOf(createIn.env.ENV)
  ELSE IF IsDefined(createIn.env.NODE_ENV) THEN ValueOf(createIn.env.NODE_ENV)
  ELSE "development"

\* the environment is test: the resolved environment or NODE_ENV is 'test'
InTest == ResolvedEnvironment = "test" \/ createIn.env.NODE_ENV = Some("test")

Created == state["r1"].created

\* C13: after createLogger the process has the uncaughtException and
\* unhandledRejection listeners of the logger if and only if handleExceptions
\* is true and the environment is not test, and none otherwise; with
\* handleExceptions left out no listener is registered in any state.
C13_ListenersIffOptedInOutsideTest ==
  /\ Created =>
       listeners = IF createIn.config.handleExceptions = Some(TRUE) /\ ~InTest
                   THEN {<<"r1", e>> : e \in Events}
                   ELSE {}
  /\ createIn.config.handleExceptions = Undefined => listeners = {}
  /\ ~Created => listeners = {}

\* C13 witness: handleExceptions is true and only NODE_ENV says test, so no
\* listener was registered.
C13_Witness ==
  /\ Created
  /\ createIn.config.handleExceptions = Some(TRUE)
  /\ createIn.config.environment = Some("production")
  /\ createIn.env.NODE_ENV = Some("test")
  /\ listeners = {}

\* the last step was a crash event handled by the logger's handler
CrashHandled == lastOp.op \in Events

\* C14: on a non-pretty logger each crash event makes the handler log at
\* fatal level with the event's name, then attempt flushSync, then call
\* process.exit(1) when exiting, also when flushSync threw; the err logged
\* for an unhandledRejection is the reason itself when it is an Error and
\* an Error made of String(reason) otherwise.
C14_CrashSafeOrder ==
  (CrashHandled /\ ~state["r1"].isPrettyMode) =>
    LET logged == lastOp.result.call
        given == lastOp.result.given
        exits == createIn.config.exitOnFatal # Some(FALSE)
    IN  /\ lastOp.outcome = "returned"
        /\ lastOp.did = IF exits THEN <<"fatal", "flushSync", "exit">>
                        ELSE <<"fatal", "flushSync">>
        /\ exits => process.exitCode = Some(1)
        /\ logged.level = "fatal"
        /\ logged.args[1].f["event"] = Str(lastOp.op)
        /\ lastOp.op = "unhandledRejection" =>
             /\ logged.args[1].f["err"].t = "Error"
             /\ logged.args[1].f["err"] =
                  IF given.t = "Error" THEN given ELSE Err(StringOf(given))
        /\ lastOp.op = "uncaughtException" => logged.args[1].f["err"] = given

\* C14 witness: a rejection with a string reason, flushSync threw, and the
\* process exited with code 1.
C14_Witness ==
  /\ lastOp.op = "unhandledRejection"
  /\ ~state["r1"].isPrettyMode
  /\ lastOp.destThrew
  /\ lastOp.result.given = Str("rejected")
  /\ lastOp.result.call.args[1].f["err"] = Err("rejected")
  /\ process.exitCode = Some(1)

\* C15: with exitOnFatal false the process never exits and never has an exit
\* timer, and a handled crash event leaves the listeners registered; with
\* exitOnFatal true or unset a handled event ends with process.exit(1) right
\* after the flush attempt in non-pretty mode, and with a 100 ms timer in
\* pretty mode whose firing is the exit with code 1.
C15_ExitIffExitOnFatalNotFalse ==
  /\ createIn.config.exitOnFatal = Some(FALSE) =>
       /\ process.exitCode = Undefined
       /\ process.exitTimers = <<>>
       /\ CrashHandled =>
            (~Has(lastOp.did, "exit") /\ ~Has(lastOp.did, "setTimeout"))
  /\ CrashHandled => listeners = {<<"r1", e>> : e \in Events}
  /\ (CrashHandled /\ createIn.config.exitOnFatal # Some(FALSE)) =>
       IF state["r1"].isPrettyMode
       THEN /\ lastOp.did = <<"fatal", "setTimeout">>
            /\ process.exitCode = Undefined
            /\ process.exitTimers # <<>>
            /\ process.exitTimers[Len(process.exitTimers)].delay = 100
       ELSE /\ lastOp.did = <<"fatal", "flushSync", "exit">>
            /\ process.exitCode = Some(1)
            /\ process.exitTimers = <<>>
  /\ lastOp.op = "exitTimer" =>
       (state["r1"].isPrettyMode /\ process.exitCode = Some(1))
  /\ process.exitCode \in {Undefined, Some(1)}

\* C15 witness: with exitOnFatal false two crash events were handled, one of
\* them in pretty mode, and the process still runs with its listeners.
C15_Witness ==
  /\ createIn.config.exitOnFatal = Some(FALSE)
  /\ state["r1"].isPrettyMode
  /\ CrashHandled
  /\ process.events = 2
  /\ process.exitCode = Undefined
  /\ listeners = {<<"r1", e>> : e \in Events}

\* async mode as the claim gives it: enableAsync when given, otherwise on
\* exactly when the resolved environment is not development, ENV is not
\* local, and neither the resolved environment nor NODE_ENV is test
ExpectedAsync ==
  IF IsDefined(createIn.config.enableAsync)
  THEN ValueOf(createIn.config.enableAsync)
  ELSE /\ ResolvedEnvironment # "development"
       /\ createIn.env.ENV # Some("local")
       /\ ~InTest

\* the destination is created with sync = not async and minLength =
\* asyncBufferSize (default 4096) when async, 0 otherwise
DestinationAsExpected ==
  /\ dest["r1"].sync = ~ExpectedAsync
  /\ dest["r1"].minLength =
       IF ExpectedAsync
       THEN IF IsDefined(createIn.config.asyncBufferSize)
            THEN ValueOf(createIn.config.asyncBufferSize)
            ELSE 4096
       ELSE 0

\* C16 (as claimed): the logger createLogger returns is in async mode exactly
\* when enableAsync (or its environment default) says so, and its
\* destination is created to match.
C16_AsyncFollowsEnableAsync ==
  Created =>
    /\ state["r1"].isAsync = ExpectedAsync
    /\ state["r1"].destination => DestinationAsExpected

\* C16 (amended): a non-pretty logger is in async mode exactly when
\* enableAsync (or its environment default) says so, and its destination is
\* created to match; a pretty-mode logger is never in async mode and has no
\* destination.
C16_AsyncFollowsEnableAsyncUnlessPretty ==
  Created =>
    IF state["r1"].isPrettyMode
    THEN ~state["r1"].isAsync /\ ~state["r1"].destination
    ELSE /\ state["r1"].isAsync = ExpectedAsync
         /\ state["r1"].destination
         /\ DestinationAsExpected

\* C16 witness: a non-pretty logger in production with nothing else given is
\* async with a 4096 byte buffer.
C16_Witness ==
  /\ Created
  /\ ~state["r1"].isPrettyMode
  /\ createIn.config.enableAsync = Undefined
  /\ createIn.config.asyncBufferSize = Undefined
  /\ ResolvedEnvironment = "production"
  /\ state["r1"].isAsync
  /\ ~dest["r1"].sync
  /\ dest["r1"].minLength = 4096

\* C25: in the logger createLogger returns, pretty mode implies isAsync =
\* FALSE and no destination, non-pretty mode implies a destination, and
\* metricsAvailable equals not isPrettyMode; a logger configured with
\* pretty: true and enableAsync: true reports isAsync = FALSE and its
\* flush() does nothing.
C25_PrettyNeverAsync ==
  Created =>
    LET s == state["r1"]
    IN  /\ s.isPrettyMode => (~s.isAsync /\ ~s.destination)
        /\ ~s.isPrettyMode => s.destination
        /\ \A nd \in NeedDrainValues :
             getBufferMetrics(RootLogger("r1"), nd).metricsAvailable = ~s.isPrettyMode
        /\ (createIn.config.pretty = Some(TRUE)
              /\ createIn.config.enableAsync = Some(TRUE)) =>
             /\ s.isPrettyMode
             /\ \A nd \in NeedDrainValues :
                  ~getBufferMetrics(RootLogger("r1"), nd).isAsync
             /\ \A throws \in BOOLEAN : flush(RootLogger("r1"), throws).did = <<>>

\* C25 witness: a logger created with pretty: true and enableAsync: true in
\* production.
C25_Witness ==
  /\ Created
  /\ createIn.config.pretty = Some(TRUE)
  /\ createIn.config.enableAsync = Some(TRUE)
  /\ createIn.config.environment = Some("production")
  /\ state["r1"].isPrettyMode
  /\ ~state["r1"].isAsync
  /\ ~state["r1"].destination

----------------------------------------------------------------------------
(* Properties of the options handed to pino (SpecOptions) *)

\* the options of the createLogger call under study
Options == ValueOf(pinoOptions).pino

\* config.redact.paths when given, no path otherwise
CustomRedactPaths ==
  IF IsDefined(createIn.config.redact) /\ IsDefined(ValueOf(createIn.config.redact).paths)
  THEN ValueOf(ValueOf(createIn.config.redact).paths)
  ELSE <<>>

\* C11: the redact paths handed to pino are every entry of
\* DEFAULT_REDACT_PATHS, in order, followed by the custom paths; the censor
\* is config.redact.censor or '[REDACTED]', and remove is
\* config.redact.remove or false.
C11_RedactDefaultsThenCustom ==
  IsDefined(pinoOptions) =>
    LET redact == Options.redact
        given == createIn.config.redact
    IN  /\ redact.paths = DEFAULT_REDACT_PATHS \o CustomRedactPaths
        /\ \A i \in 1..Len(DEFAULT_REDACT_PATHS) :
             redact.paths[i] = DEFAULT_REDACT_PATHS[i]
        /\ redact.censor =
             IF IsDefined(given) /\ IsDefined(ValueOf(given).censor)
             THEN ValueOf(ValueOf(given).censor)
             ELSE "[REDACTED]"
        /\ redact.remove =
             IF IsDefined(given) /\ IsDefined(ValueOf(given).remove)
             THEN ValueOf(ValueOf(given).remove)
             ELSE FALSE

\* C11 witness: a configuration with one custom path and no censor.
C11_Witness ==
  /\ IsDefined(pinoOptions)
  /\ CustomRedactPaths = <<"user.ssn">>
  /\ ValueOf(createIn.config.redact).censor = Undefined
  /\ Options.redact.paths[Len(Options.redact.paths)] = "user.ssn"
  /\ Options.redact.paths[1] = "password"
  /\ Options.redact.censor = "[REDACTED]"

\* C19 (as claimed): for every configuration the base fields have service
\* equal to config.service and environment equal to the resolved
\* environment, and every custom base field beside them.
C19_BaseHasServiceAndEnvironment ==
  IsDefined(pinoOptions) =>
    /\ Options.base["service"] = createIn.config.service
    /\ Options.base["environment"] = ResolvedEnvironment
    /\ IsDefined(createIn.config.base) =>
         \A k \in DOMAIN ValueOf(createIn.config.base) \ {"service", "environment"} :
           /\ k \in DOMAIN Options.base
           /\ Options.base[k] = ValueOf(createIn.config.base)[k]

\* C20: the level handed to pino is config.level when given, otherwise
\* LOG_LEVEL when set, otherwise 'debug' when the resolved environment is
\* 'development' and 'info' in every other environment.
C20_LevelResolution ==
  IsDefined(pinoOptions) =>
    Options.level =
      IF IsDefined(createIn.config.level) THEN ValueOf(createIn.config.level)
      ELSE IF IsDefined(createIn.env.LOG_LEVEL) THEN ValueOf(createIn.env.LOG_LEVEL)
      ELSE IF ResolvedEnvironment = "development" THEN "debug"
      ELSE "info"

\* C20 witness: both config.level and LOG_LEVEL are given and config.level
\* is the level handed to pino.
C20_Witness ==
  /\ IsDefined(pinoOptions)
  /\ createIn.config.level = Some("warn")
  /\ createIn.env.LOG_LEVEL = Some("error")
  /\ Options.level = "warn"

----------------------------------------------------------------------------
(* Properties of the derivation calls (SpecChild) *)

\* the derivation call c has been made
Made(c) == derived[c] # <<>>

\* the wrapper the call c returned
Wrapper(c) == derived[c][1]

\* the bindings the call c handed to pinoLogger.child
Bindings(c) == Wrapper(c).pino[Len(Wrapper(c).pino)]

\* the call c made one child of the pino logger it was called on and
\* wrapped it with the same LoggerState
ChildOfBase(c) ==
  /\ Len(Wrapper(c).pino) = Len(ctxIn.base.pino) + 1
  /\ SubSeq(Wrapper(c).pino, 1, Len(ctxIn.base.pino)) = ctxIn.base.pino
  /\ Wrapper(c).state = ctxIn.base.state

\* the value the context gives the property key, undefined when it has none
ContextValue(key) ==
  IF key \in DOMAIN ctxIn.context THEN ctxIn.context[key] ELSE Undef

\* C18: withContext(ctx) creates the child with exactly the bindings domain,
\* correlation_id, user_id and tenant_id, each the matching field of ctx or
\* undefined when ctx has none; domain(name) creates it with exactly
\* {domain: name}; createRequestLogger and createDomainLogger return what
\* withContext and domain return.
C18_ExactBindings ==
  /\ \A c \in {"withContext", "createRequestLogger"} :
       Made(c) =>
         /\ ChildOfBase(c)
         /\ DOMAIN Bindings(c) = {"domain", "correlation_id", "user_id", "tenant_id"}
         /\ Bindings(c)["domain"] = ContextValue("domain")
         /\ Bindings(c)["correlation_id"] = ContextValue("correlationId")
         /\ Bindings(c)["user_id"] = ContextValue("userId")
         /\ Bindings(c)["tenant_id"] = ContextValue("tenantId")
  /\ \A c \in {"domain", "createDomainLogger"} :
       Made(c) =>
         /\ ChildOfBase(c)
         /\ DOMAIN Bindings(c) = {"domain"}
         /\ Bindings(c)["domain"] = ctxIn.name
  /\ (Made("withContext") /\ Made("createRequestLogger")) =>
       Wrapper("createRequestLogger") = Wrapper("withContext")
  /\ (Made("domain") /\ Made("createDomainLogger")) =>
       Wrapper("createDomainLogger") = Wrapper("domain")

\* C18 witness: the four calls made with a context that has a correlationId
\* and a tenantId only, on a derived wrapper.
C18_Witness ==
  /\ \A c \in DeriveCalls : Made(c)
  /\ DOMAIN ctxIn.context = {"correlationId", "tenantId"}
  /\ ctxIn.base.pino # <<>>
  /\ Bindings("withContext")["user_id"] = Undef
  /\ Bindings("withContext")["tenant_id"] = Str("tenant-1")

----------------------------------------------------------------------------
(* Properties of the crash handlers of two loggers under shutdown          *)
(* (SpecHandlers)                                                          *)

\* shutdown() has been called on a wrapper of the tree r
ShutDown(r) == \E i \in CallIds : calls[i].target = r

\* a shutdown() call on the tree r has not settled yet
InFlight(r) == \E i \in CallIds : calls[i].target = r /\ calls[i].promise = "pending"

\* createLogger registered crash handlers for the tree r
Registers(r) == process.handlers[r].kind # "none"

\* the trees whose handlers the crash event of the last step ran
Ran == {lastOp.result.ran[k] : k \in 1..Len(lastOp.result.ran)}

\* the handler of the tree r exits the process before it returns
ExitsAtOnce(r) ==
  process.handlers[r].kind = "crashSafe" /\ process.handlers[r].shouldExit

\* C22: once shutdown() has been called on a logger or one of its children,
\* the process holds none of that logger's listeners, and a crash event that
\* comes later, the shutdown settled or not, runs no handler of that logger:
\* it logs nothing at fatal level, flushes nothing and exits nothing for it.
C22_NoHandlerAfterShutdown ==
  \A r \in Roots :
    ShutDown(r) =>
      /\ \A e \in Events : <<r, e>> \notin listeners
      /\ CrashHandled =>
           /\ r \notin Ran
           /\ Len(lastOp.result.ran) = 1 =>
                /\ Count(lastOp.did, "fatal") = 1
                /\ Has(lastOp.did, "exit") => ExitsAtOnce(lastOp.result.ran[1])
                /\ Has(lastOp.did, "flushSync") =>
                     process.handlers[lastOp.result.ran[1]].kind = "crashSafe"

\* C22 witness: a crash event after shutdown() on the first logger, whose crash-safe handlers had been registered and whose shutdown
\* is still waiting for the destination: the other logger's handler ran alone.
C22_Witness ==
  /\ CrashHandled
  /\ ShutDown("r1")
  /\ InFlight("r1")
  /\ process.handlers["r1"].kind = "crashSafe"
  /\ process.handlers["r1"].shouldExit
  /\ lastOp.result.ran = <<"r2">>
  /\ Count(lastOp.did, "fatal") = 1

\* C28: each logger created with crash handlers has its own pair of process
\* listeners, held for as long as shutdown() has not been called on that
\* logger and whatever was called on the other one; a crash event runs the
\* handler of every logger that still has its listener, in the order of
\* registration, up to the first handler that exits the process.
C28_OwnPairPerLogger ==
  /\ \A r \in Roots, e \in Events :
       <<r, e>> \in listeners <=> (Registers(r) /\ ~ShutDown(r))
  /\ CrashHandled =>
       LET held == SelectSeq(ListenerOrder, LAMBDA r : <<r, lastOp.op>> \in listeners)
       IN  /\ held # <<>>
           /\ lastOp.result.ran =
                IF ExitsAtOnce(held[1]) THEN <<held[1]>> ELSE held

\* C28 witness: both loggers registered their handlers, shutdown() has been
\* called on the second one only, and the crash event that followed ran the
\* first logger's handler, whose pair is the one the process still holds.
C28_Witness ==
  /\ Registers("r1") /\ Registers("r2")
  /\ ShutDown("r2") /\ ~ShutDown("r1")
  /\ CrashHandled
  /\ lastOp.result.ran = <<"r1">>
  /\ listeners = {<<"r1", e>> : e \in Events}

----------------------------------------------------------------------------
(* Properties of the lifecycle record under every operation (SpecFrame)    *)

\* what the createLogger call of the tree made
AsCreated == createLogger("r1", createIn.config, createIn.env, createIn.hasFlush)

\* a shutdown() call on the tree has resolved
ShutdownCompleted ==
  \E i \in CallIds : calls[i].target = "r1" /\ calls[i].promise = "resolved"

\* C26: whatever log calls, flush(), shutdown(), getBufferMetrics(), level
\* changes and derivations have been made, the lifecycle record of the tree
\* is the one createLogger made: getBufferMetrics reports its isAsync,
\* isPrettyMode and metricsAvailable, flush() attempts flushSync on its
\* destination exactly when it is async and buffered, shutdown() works on its
\* destination, and a log call makes its one call on the pino logger of the
\* wrapper it was called on, after a completed shutdown as before it.
C26_LifecycleRecordFixed ==
  /\ state["r1"] = AsCreated.state
  /\ lastOp.op \in {"getBufferMetrics", "flush", "shutdown", "log"} =>
       lastOp.target = "r1"
  /\ lastOp.op = "getBufferMetrics" =>
       /\ lastOp.result.metrics.isAsync = AsCreated.state.isAsync
       /\ lastOp.result.metrics.isPrettyMode = AsCreated.state.isPrettyMode
       /\ lastOp.result.metrics.metricsAvailable =
            (AsCreated.state.destination /\ ~AsCreated.state.isPrettyMode)
  /\ lastOp.op = "flush" =>
       (lastOp.did = <<"flushSync">>) =
         (/\ AsCreated.state.destination
          /\ ~AsCreated.state.isPrettyMode
          /\ AsCreated.state.isAsync
          /\ AsCreated.dest.minLength # 0)
  /\ lastOp.op = "shutdown" =>
       Has(lastOp.did, "flushSync") =
         (AsCreated.state.destination /\ ~AsCreated.state.isPrettyMode)
  /\ lastOp.op = "log" =>
       /\ lastOp.outcome = "returned"
       /\ Len(lastOp.result.calls) = 1
       /\ \E h \in LoggersOf("r1") :
            h.pino = lastOp.result.pino /\ Len(h.pino) = lastOp.depth

\* C26 witness: after a shutdown() of an async logger has completed, its
\* destination has closed and the root's level has been changed,
\* getBufferMetrics still reports metricsAvailable.
C26_Witness ==
  /\ ShutdownCompleted
  /\ dest["r1"].destroyed
  /\ pinoLevel["r1"] = Some("warn")
  /\ AsCreated.state.isAsync
  /\ lastOp.op = "getBufferMetrics"
  /\ lastOp.result.metrics.metricsAvailable

----------------------------------------------------------------------------
(* Properties of the log methods on a non-object second argument           *)
(* (SpecLogArg)                                                            *)

\* C29 (as claimed): a log method called with a string message and a second
\* argument that is undefined, null, a number or a string returns normally
\* after exactly one call to the underlying method of that level, with the
\* message alone.
C29_MessageAloneForNonObject ==
  emitted["messageAndValue"] # <<>> =>
    /\ ~emitted["messageAndValue"][1].threw
    /\ emitted["messageAndValue"][1].calls =
         <<PinoCall(logIn.level, <<Str(logIn.msg)>>)>>

====
